---- MODULE Spec2Model ----
(***************************************************************************)
(* Model of the pixel/region classification engine of luz-sombra-next.js:  *)
(* the TensorFlowService class (src/services/tensorflowService.ts and its  *)
(* rule-based four-class predecessor), its set-up sequence                 *)
(* initialize -> createModel -> trainModel, classifyImagePixels and the    *)
(* overlay built by createProcessedImage.                                  *)
(*                                                                         *)
(* Numbers: the code computes with IEEE doubles; the model computes the    *)
(* same comparisons over exact rationals by cross-multiplying the integer  *)
(* sums (totalR / pixelCount > 180 becomes totalR > 180 * pixelCount).     *)
(* 0/0 is NaN in the code; every comparison with NaN is false, which the   *)
(* model states as an explicit "denominator # 0" conjunct.                 *)
(***************************************************************************)
EXTENDS Integers, Sequences, FiniteSets, TLC

VARIABLES
    variant,         \* which TensorFlowService implementation is deployed
    model,           \* TensorFlowService.model: "null" or "created"
    isModelLoaded,   \* TensorFlowService.isModelLoaded
    isInitializing,  \* TensorFlowService.isInitializing
    isTraining,      \* TensorFlowService.isTraining
    modelSerial,     \* which object this.model refers to: the number of sequential() calls so far
    fitCount,        \* the weights of the model: the number of model.fit() runs that completed
    setup,           \* position of the caller running the set-up sequence
    call,            \* per caller: the classifyImagePixels invocation in progress
    running,         \* the caller whose synchronous code holds the JavaScript thread, 0 if none
    serverTensorFlowService,      \* route.ts: the module-level singleton is non-null
    request,                      \* route.ts: per caller, the position of its POST handler
    globalIsInitialized,          \* useTensorFlow.ts: module-level flag
    globalInitializationPromise,  \* useTensorFlow.ts: "null", "pending", "resolved" or "rejected"
    hook,                         \* useTensorFlow.ts: per hook instance, its initialize() call and state
    samples,                      \* per-pixel variant, trainModel: the features / labels pushed so far
    spreadsheetId,   \* process.env.GOOGLE_SHEETS_SPREADSHEET_ID
    credentialsEnv,  \* process.env.GOOGLE_SHEETS_CREDENTIALS_BASE64 / _TOKEN_BASE64
    config,          \* GoogleSheetsService.config
    sheets,          \* GoogleSheetsService.sheets is non-null
    historialCache,  \* GoogleSheetsService.historialCache
    fieldDataCache,  \* GoogleSheetsService.fieldDataCache
    now,             \* Date.now(), in ticks of TICK_MS
    mainSheet,       \* the spreadsheet: column A of the rows of the main sheet, header excluded
    fieldSheet,      \* the spreadsheet: the rows of Data-campo, header excluded
    op,              \* per client: the GoogleSheetsService call in progress
    lastFetch,       \* history: per method, when its last Sheets request succeeded (-1: never)
    seq,             \* per hook instance: the position of the set-up sequence it runs
    completed,       \* history: which set-up methods have returned normally at least once
    gpsCache,        \* exif.ts: the module-level Map, per file key "none", "null" or "coords"
    windowGpsCache,  \* window.gpsCache, the Map that removeImage looks for
    exifLoaded,      \* window.EXIF is defined
    images,          \* useImageUpload: the files in the list
    extraction       \* per extractGpsFromImage call: its promise, timeout and EXIF callback

\* the TensorFlowService instance
svc == <<variant, model, isModelLoaded, isInitializing, isTraining, modelSerial, fitCount>>

\* the callers of the set-up sequence
route == <<serverTensorFlowService, request>>
hooks == <<globalIsInitialized, globalInitializationPromise, hook>>

\* the GoogleSheetsService instance, its environment and its clients
gss == <<spreadsheetId, credentialsEnv, config, sheets, historialCache, fieldDataCache,
         now, mainSheet, fieldSheet, op, lastFetch>>

\* what classifyImagePixels and the set-up methods of TensorFlowService never touch
\* the set-up sequences run by hook instances
seqs == <<seq, completed>>

\* the GPS cache of utils/exif.ts and the upload list
gps == <<gpsCache, windowGpsCache, exifLoaded, images, extraction>>

aux == <<seqs, gps>>

others == <<route, hooks, samples, gss, aux>>

\* what the GoogleSheetsService never touches
tfs == <<svc, setup, call, running, route, hooks, samples, aux>>

\* what the GPS cache and the upload list never touch
nongps == <<svc, setup, call, running, route, hooks, samples, gss, seqs>>

vars == <<svc, setup, call, running, route, hooks, samples, gss, aux>>

(***************************************************************************)
(* Bounds of the model                                                     *)
(***************************************************************************)
MaxTiles == 2        \* images are up to MaxTiles regions (plus one pixel) wide and high
MaxRuleDim == 2      \* images of the per-pixel rule variant are up to MaxRuleDim x MaxRuleDim
NumCallers == 2      \* concurrent callers of classifyImagePixels
NumHooks == 2        \* mounted components that use the useTensorFlow hook
MaxSetupRuns == 2    \* the set-up sequence is run again while fewer models and fits than this exist
NumClients == 2      \* concurrent calls into the GoogleSheetsService
MaxSamples == 3      \* training samples drawn by trainModel (the code draws 1000)
MaxTicks == 2        \* the clock runs for MaxTicks ticks
MaxRows == 2         \* rows of the main sheet
NumFiles == 2        \* distinct files (cache keys name_size_lastModified)
MaxExtractions == 3  \* calls of extractGpsFromImage

Callers == 1..NumCallers
Hooks == 1..NumHooks
Clients == 1..NumClients
Files == 1..NumFiles
Extractions == 1..MaxExtractions

(***************************************************************************)
(* Program constants                                                       *)
(***************************************************************************)
REGION_SIZE_HEURISTIC == 20
REGION_SIZE_REGION == 10
SUELO_INTENSITY_THRESHOLD == 120
SUELO_GREEN_THRESHOLD_PCT == 52      \* 0.52, as hundredths

Variants == {"heuristic", "region", "rule"}

regionSize(v) == IF v = "heuristic" THEN REGION_SIZE_HEURISTIC ELSE REGION_SIZE_REGION

\* label codes of the two-class variants (0 = light, 1 = shadow)
LIGHT == 0
SHADOW == 1
\* an array slot that was never assigned (JavaScript undefined)
Undefined == -1

(***************************************************************************)
(* ImageData: width, height and the RGBA byte buffer.  The buffer of the   *)
(* test images is described by a pattern and read through data(img, i).    *)
(***************************************************************************)
Black == <<0, 0, 0>>
White == <<255, 255, 255>>

Pixel(img, x, y) ==
    CASE img.kind = "uniform" -> img.a
      [] img.kind = "halves"  -> IF 2 * x < img.width THEN img.a ELSE img.b
      [] img.kind = "checker" -> IF (x + y) % 2 = 0 THEN img.a ELSE img.b

\* imageData.data[i]
data(img, i) ==
    LET p == i \div 4
        ch == i % 4
    IN  IF ch = 3 THEN 255 ELSE Pixel(img, p % img.width, p \div img.width)[ch + 1]

\* imageData.data.length
dataLength(img) == img.width * img.height * 4

Pixels(img) == (0..(img.height - 1)) \X (0..(img.width - 1))

NoImage == [width |-> 0, height |-> 0, kind |-> "uniform", a |-> Black, b |-> Black]

Image(w, h, k, a, b) == [width |-> w, height |-> h, kind |-> k, a |-> a, b |-> b]

(***************************************************************************)
(* One classifyImagePixels invocation: its locals and its outcome          *)
(***************************************************************************)
EmptyMap == [p \in {} |-> Undefined]

NoResult == [kind |-> "none"]

\* the contrast of the region the heuristic loop handled last, as the fraction
\* num/den; none before the first region
NoContrast == [num |-> 0, den |-> 0]

IdleCall ==
    [pc |-> "idle", imageData |-> NoImage, classificationMap |-> EmptyMap,
     lightPixels |-> 0, shadowPixels |-> 0, y |-> 0, x |-> 0, i |-> 0,
     regions |-> <<>>, regionPositions |-> <<>>, predictionData |-> <<>>,
     contrast |-> NoContrast, setupDone |-> FALSE, result |-> NoResult]

\* lightPercentage = (lightPixels / totalPixels) * 100 as the fraction num/den;
\* den = 0 is the NaN the code returns for 0/0
Percentage(count, totalPixels) == [num |-> count * 100, den |-> totalPixels]

GREEN == <<0, 255, 0, 255>>
BLUE == <<0, 0, 255, 255>>
Placeholder == [p \in {} |-> BLUE]

\* createProcessedImageBrowser / createProcessedImageNode (two-class variants):
\* "classificationMap[y]?.[x] || 0" reads an unassigned slot as 0
createProcessedImage(img, classificationMap) ==
    [p \in Pixels(img) |->
        LET classification == IF classificationMap[p] = Undefined THEN 0 ELSE classificationMap[p]
        IN  IF classification = 1 THEN GREEN ELSE BLUE]

\* the tail of classifyImagePixels in the region-level variants: percentages
\* over the counted pixels, overlay, return value.  canvasOk = FALSE is the
\* catch branch of createProcessedImage*, which returns a 1x1 placeholder.
finishCounted(s, canvasOk) ==
    LET totalPixels == s.lightPixels + s.shadowPixels
    IN  [s EXCEPT !.pc = "returned",
                  !.result = [kind |-> "result",
                              lightPixels |-> s.lightPixels,
                              shadowPixels |-> s.shadowPixels,
                              totalPixels |-> totalPixels,
                              lightPercentage |-> Percentage(s.lightPixels, totalPixels),
                              shadowPercentage |-> Percentage(s.shadowPixels, totalPixels),
                              processedImageData |->
                                  IF canvasOk THEN createProcessedImage(s.imageData, s.classificationMap)
                                  ELSE Placeholder,
                              classificationMap |-> s.classificationMap]]

\* "Initialize classification map": one empty row per y, every slot unassigned
startMap(s, img, ready) ==
    [s EXCEPT !.pc = "loop", !.imageData = img,
              !.classificationMap = [p \in Pixels(img) |-> Undefined],
              !.lightPixels = 0, !.shadowPixels = 0, !.y = 0, !.x = 0, !.i = 0,
              !.regions = <<>>, !.regionPositions = <<>>, !.predictionData = <<>>,
              !.setupDone = ready, !.result = NoResult]

\* "Apply classification to entire region": the writes and the counting of
\* one tile at (x, y); the guard pixelY < height && pixelX < width clips it
tilePixelsMutOverlap(img, x, y, rs) ==
    {p \in Pixels(img) : p[1] \in y..(y + rs) /\ p[2] \in x..(x + rs)}

tilePixels(img, x, y, rs) ==
    {p \in Pixels(img) : p[1] \in y..(y + rs - 1) /\ p[2] \in x..(x + rs - 1)}

applyRegion(s, x, y, rs, classification) ==
    LET written == tilePixels(s.imageData, x, y, rs)
        n == Cardinality(written)
    IN  [s EXCEPT !.classificationMap =
                      [p \in DOMAIN s.classificationMap |->
                          IF p \in written THEN classification ELSE s.classificationMap[p]],
                  !.lightPixels = IF classification = 0 THEN @ + n ELSE @,
                  !.shadowPixels = IF classification = 0 THEN @ ELSE @ + n]

(***************************************************************************)
(* Heuristic variant (tensorflowService.ts, second class)                  *)
(***************************************************************************)
Min2(a, b) == IF a < b THEN a ELSE b
Max2(a, b) == IF a > b THEN a ELSE b
Min3(a, b, c) == Min2(a, Min2(b, c))
Max3(a, b, c) == Max2(a, Max2(b, c))

\* "Collect pixel data efficiently": what the loop body adds for the pixel
\* k = dy * rs + dx of a region.  minBrightness3 / maxBrightness3 are
\* 3 * brightness = r + g + b
collectPixelMutMin(img, x, y, rs, k) ==
    LET dy == k \div rs
        dx == k % rs
        pixelIndex == ((y + dy) * img.width + (x + dx)) * 4
        r == data(img, pixelIndex)
        g == data(img, pixelIndex + 1)
        b == data(img, pixelIndex + 2)
    IN  [totalR |-> r, totalG |-> g, totalB |-> b, pixelCount |-> 1,
         minBrightness3 |-> Min2(0, r + g + b),
         maxBrightness3 |-> Max2(0, r + g + b)]

collectPixel(img, x, y, rs, k) ==
    LET dy == k \div rs
        dx == k % rs
        pixelIndex == ((y + dy) * img.width + (x + dx)) * 4
        r == data(img, pixelIndex)
        g == data(img, pixelIndex + 1)
        b == data(img, pixelIndex + 2)
    IN  [totalR |-> r, totalG |-> g, totalB |-> b, pixelCount |-> 1,
         minBrightness3 |-> Min2(3 * 255, r + g + b),
         maxBrightness3 |-> Max2(0, r + g + b)]

\* the accumulation of the dy/dx loops over the pixels lo..hi of a region;
\* sums, minimum and maximum are accumulated by halves to keep the evaluation shallow
RECURSIVE collectRegion(_, _, _, _, _, _)
collectRegion(img, x, y, rs, lo, hi) ==
    IF lo = hi THEN collectPixel(img, x, y, rs, lo)
    ELSE LET mid == (lo + hi) \div 2
             p == collectRegion(img, x, y, rs, lo, mid)
             q == collectRegion(img, x, y, rs, mid + 1, hi)
         IN  [totalR |-> p.totalR + q.totalR, totalG |-> p.totalG + q.totalG,
              totalB |-> p.totalB + q.totalB, pixelCount |-> p.pixelCount + q.pixelCount,
              minBrightness3 |-> Min2(p.minBrightness3, q.minBrightness3),
              maxBrightness3 |-> Max2(p.maxBrightness3, q.maxBrightness3)]

regionFeatures(img, x, y, rs) == collectRegion(img, x, y, rs, 0, rs * rs - 1)

\* avgBrightness = (avgR + avgG + avgB) / 3 > t
avgBrightnessGt(f, t) == f.totalR + f.totalG + f.totalB > t * 3 * f.pixelCount
\* colorBalance = min(avgR, avgG, avgB) / max(avgR, avgG, avgB) > tenths / 10
colorBalanceGt(f, tenths) ==
    LET mn == Min3(f.totalR, f.totalG, f.totalB)
        mx == Max3(f.totalR, f.totalG, f.totalB)
    IN  mx # 0 /\ 10 * mn > tenths * mx
\* contrast = (maxBrightness - minBrightness) / 255 > hundredths / 100
contrastGt(f, hundredths) ==
    100 * (f.maxBrightness3 - f.minBrightness3) > hundredths * 3 * 255
\* maxColor = max(avgR, avgG, avgB) > t
maxColorGt(f, t) == Max3(f.totalR, f.totalG, f.totalB) > t * f.pixelCount

\* const contrast = (maxBrightness - minBrightness) / 255, as a fraction
contrastOf(f) == [num |-> f.maxBrightness3 - f.minBrightness3, den |-> 3 * 255]

lightScore(f) ==
      (IF avgBrightnessGt(f, 180) THEN 40
       ELSE IF avgBrightnessGt(f, 120) THEN 20
       ELSE IF avgBrightnessGt(f, 80) THEN 10 ELSE 0)
    + (IF colorBalanceGt(f, 8) THEN 30
       ELSE IF colorBalanceGt(f, 6) THEN 15 ELSE 0)
    + (IF contrastGt(f, 30) THEN 20
       ELSE IF contrastGt(f, 15) THEN 10 ELSE 0)
    + (IF maxColorGt(f, 200) THEN 10
       ELSE IF maxColorGt(f, 150) THEN 5 ELSE 0)

\* "Determine classification (threshold: 50 points)"
classifyScoreMutStrict(score) == IF score > 50 THEN 0 ELSE 1

classifyScore(score) == IF score >= 50 THEN 0 ELSE 1

\* one evaluation of the loop heads
\*   for (y = 0; y < height - regionSize; y += regionSize)
\*     for (x = 0; x < width - regionSize; x += regionSize)
\* followed by the loop body when both conditions hold
heuristicStep(s) ==
    LET img == s.imageData
        rs == REGION_SIZE_HEURISTIC
    IN  IF ~(s.y < img.height - rs) THEN [s EXCEPT !.pc = "finish"]
        ELSE IF ~(s.x < img.width - rs) THEN [s EXCEPT !.y = s.y + rs, !.x = 0]
        ELSE LET f == regionFeatures(img, s.x, s.y, rs)
                 classification == classifyScore(lightScore(f))
             IN  [applyRegion(s, s.x, s.y, rs, classification) EXCEPT
                      !.x = s.x + rs, !.contrast = contrastOf(f)]

(***************************************************************************)
(* 10x10 region variant (tensorflowService.ts, first class): the regions   *)
(* are sampled first, predicted in one batch, then applied.                *)
(***************************************************************************)
\* "Calculate average color for this region": the sums that make avgR, avgG, avgB
regionColor(img, x, y, rs) ==
    LET f == regionFeatures(img, x, y, rs)
    IN  <<f.totalR, f.totalG, f.totalB>>

\* one evaluation of the loop heads of "Sample regions from the image"
sampleStep(s) ==
    LET img == s.imageData
        rs == REGION_SIZE_REGION
    IN  IF ~(s.y < img.height - rs) THEN [s EXCEPT !.pc = "predict"]
        ELSE IF ~(s.x < img.width - rs) THEN [s EXCEPT !.y = s.y + rs, !.x = 0]
        ELSE [s EXCEPT !.regions = Append(@, regionColor(img, s.x, s.y, rs)),
                       !.regionPositions = Append(@, [x |-> s.x, y |-> s.y, width |-> rs, height |-> rs]),
                       !.x = s.x + rs]

\* what this.model.predict may answer for the sampled regions: the weights are
\* whatever random initialisation and training produced, so any function of
\* the region colour; class = lightProb > shadowProb ? 0 : 1
Predictions(regions) ==
    LET colors == {regions[k] : k \in 1..Len(regions)}
    IN  {[k \in 1..Len(regions) |-> w[regions[k]]] : w \in [colors -> {LIGHT, SHADOW}]}

\* one iteration of "Apply results to classification map"
applyStep(s) ==
    IF ~(s.i < Len(s.regions)) THEN [s EXCEPT !.pc = "finish"]
    ELSE LET pos == s.regionPositions[s.i + 1]
             classification == s.predictionData[s.i + 1]
         IN  [applyRegion(s, pos.x, pos.y, pos.width, classification) EXCEPT !.i = s.i + 1]

(***************************************************************************)
(* Rule-based four-class variant (unnamed/part_004, first class)           *)
(***************************************************************************)
SUELO_SOMBRA == 0
SUELO_LUZ == 1
MALLA_SOMBRA == 2
MALLA_LUZ == 3

\* intensity = (r + g + b) / 3.0 < SUELO_INTENSITY_THRESHOLD
intensityLt(r, g, b) == r + g + b < 3 * SUELO_INTENSITY_THRESHOLD

\* denominator = r + b; greenRatio = denominator === 0 ? 0 : g / denominator;
\* greenRatio <= SUELO_GREEN_THRESHOLD
greenRatioLeMutNoGuard(r, g, b) ==
    LET denominator == r + b
    IN  denominator # 0 /\ 100 * g <= SUELO_GREEN_THRESHOLD_PCT * denominator

greenRatioLe(r, g, b) ==
    LET denominator == r + b
    IN  IF denominator = 0 THEN TRUE
        ELSE 100 * g <= SUELO_GREEN_THRESHOLD_PCT * denominator

\* the if / else-if chain of classifyImagePixels; each branch condition is
\* evaluated in the order of the code
ruleBranch(r, g, b) ==
    IF intensityLt(r, g, b) /\ greenRatioLe(r, g, b) THEN 1
    ELSE IF ~intensityLt(r, g, b) /\ greenRatioLe(r, g, b) THEN 2
    ELSE IF intensityLt(r, g, b) /\ ~greenRatioLe(r, g, b) THEN 3
    ELSE 4

classIndexOfBranch(branch) == branch - 1

ruleClassIndex(r, g, b) == classIndexOfBranch(ruleBranch(r, g, b))

\* "Count light and shadow pixels"
countsLight(classIndex) == classIndex = SUELO_LUZ \/ classIndex = MALLA_LUZ
countsShadowMutSoilOnly(classIndex) == classIndex = SUELO_SOMBRA

countsShadow(classIndex) == classIndex = SUELO_SOMBRA \/ classIndex = MALLA_SOMBRA

\* one iteration of for (let i = 0; i < data.length; i += 4)
ruleStep(s) ==
    LET img == s.imageData
    IN  IF ~(s.i < dataLength(img)) THEN [s EXCEPT !.pc = "finish"]
        ELSE LET r == data(img, s.i)
                 g == data(img, s.i + 1)
                 b == data(img, s.i + 2)
                 classIndex == ruleClassIndex(r, g, b)
                 pixelIndex == s.i \div 4
                 x == pixelIndex % img.width
                 y == pixelIndex \div img.width
             IN  [s EXCEPT !.classificationMap[<<y, x>>] = classIndex,
                           !.lightPixels = IF countsLight(classIndex) THEN @ + 1 ELSE @,
                           !.shadowPixels = IF ~countsLight(classIndex) /\ countsShadow(classIndex)
                                            THEN @ + 1 ELSE @,
                           !.i = s.i + 4]

\* colour table of the four-class createProcessedImage
colors ==
    <<<<128, 128, 128, 255>>, <<255, 255, 0, 255>>, <<0, 128, 0, 255>>, <<0, 255, 0, 255>>>>

createProcessedImage4(img, classificationMap) ==
    [p \in Pixels(img) |-> colors[classificationMap[p] + 1]]

\* the tail of the rule-based classifyImagePixels: totalPixels = data.length / 4.
\* createProcessedImage throws when the canvas gives no 2d context, and the
\* catch block of classifyImagePixels rethrows
finishRule(s, canvasOk) ==
    LET totalPixels == dataLength(s.imageData) \div 4
    IN  IF ~canvasOk THEN [s EXCEPT !.pc = "thrown", !.result = [kind |-> "error"]]
        ELSE [s EXCEPT !.pc = "returned",
                  !.result = [kind |-> "result",
                              lightPixels |-> s.lightPixels,
                              shadowPixels |-> s.shadowPixels,
                              totalPixels |-> totalPixels,
                              lightPercentage |-> Percentage(s.lightPixels, totalPixels),
                              shadowPercentage |-> Percentage(s.shadowPixels, totalPixels),
                              processedImageData |-> createProcessedImage4(s.imageData, s.classificationMap),
                              classificationMap |-> s.classificationMap]]

(***************************************************************************)
(* Input images                                                            *)
(***************************************************************************)
\* widths and heights around the region grid: one pixel, and k regions and
\* k regions plus one pixel for k up to MaxTiles
TileDims(rs) == {1} \cup {k * rs + d : k \in 1..MaxTiles, d \in {0, 1}}

Grey(v) == <<v, v, v>>

\* region contents that reach every band of the heuristic score
HeuristicPatterns ==
    {<<"uniform", Black, Black>>, <<"uniform", White, White>>,
     <<"uniform", Grey(140), Grey(140)>>, <<"uniform", Grey(120), Grey(120)>>,
     <<"uniform", <<255, 255, 100>>, <<255, 255, 100>>>>,
     <<"uniform", <<90, 60, 60>>, <<90, 60, 60>>>>,
     <<"halves", Black, White>>,
     <<"checker", Black, White>>,
     <<"checker", Grey(100), Grey(150)>>}

\* contents used at every size of the grid
GridPatterns ==
    {<<"uniform", Black, Black>>, <<"halves", Black, White>>}

\* channel values on both sides of the thresholds of the rule variant
RuleChannels == {0, 1, 49, 50, 52, 120, 255}

RuleColors == RuleChannels \X RuleChannels \X RuleChannels

RulePairs ==
    {<<Black, White>>, <<<<50, 100, 50>>, White>>, <<<<100, 200, 100>>, <<0, 1, 0>>>>,
     <<Black, Black>>}

TileImages(v) ==
    IF v = "rule"
    THEN {Image(1, 1, "uniform", c, c) : c \in RuleColors}
         \cup {Image(w, h, "checker", pr[1], pr[2]) :
                   w \in 1..MaxRuleDim, h \in 1..MaxRuleDim, pr \in RulePairs}
    ELSE {Image(w, h, pt[1], pt[2], pt[3]) :
              w \in TileDims(regionSize(v)), h \in TileDims(regionSize(v)), pt \in GridPatterns}
         \cup (IF v = "heuristic"
               THEN {Image(regionSize(v) + 1, regionSize(v) + 1, pt[1], pt[2], pt[3]) :
                         pt \in HeuristicPatterns}
               ELSE {})

\* the images of the life-cycle specification: no region, and one region
SmallImages(v) ==
    IF v = "rule"
    THEN {Image(1, 1, "uniform", Black, Black), Image(2, 1, "checker", <<50, 100, 50>>, White)}
    ELSE {Image(1, 1, "uniform", Black, Black),
          Image(regionSize(v) + 1, regionSize(v) + 1, "uniform", White, White)}

(***************************************************************************)
(* classifyImagePixels, in the steps the event loop can observe: a caller  *)
(* holds the thread (running) from its call or resumption to its next      *)
(* await or return.                                                        *)
(***************************************************************************)
SetupDone == setup = "done"

\* the call itself, up to the first await (region variant: await
\* loadTensorFlow()) or into the loops (heuristic: after the readiness guard;
\* rule variant: no guard)
classifyImagePixels(c, img) ==
    /\ running = 0
    /\ call[c].pc = "idle"
    /\ IF variant = "region"
       THEN /\ call' = [call EXCEPT ![c] = [IdleCall EXCEPT !.pc = "await_tf", !.imageData = img,
                                                             !.setupDone = SetupDone]]
            /\ running' = 0
       ELSE IF variant = "heuristic" /\ ~isModelLoaded
       THEN /\ call' = [call EXCEPT ![c] = [IdleCall EXCEPT !.pc = "thrown", !.imageData = img,
                                                             !.setupDone = SetupDone,
                                                             !.result = [kind |-> "error"]]]
            /\ running' = 0
       ELSE /\ call' = [call EXCEPT ![c] = startMap(IdleCall, img, SetupDone)]
            /\ running' = c
    /\ UNCHANGED <<svc, setup, others>>

\* region variant, after loadTensorFlow() resolved: the readiness guard
classifyAfterLoad(c) ==
    /\ running = 0
    /\ call[c].pc = "await_tf"
    /\ IF model = "null" \/ ~isModelLoaded
       THEN /\ call' = [call EXCEPT ![c].pc = "thrown", ![c].result = [kind |-> "error"]]
            /\ running' = 0
       ELSE /\ call' = [call EXCEPT ![c] = [startMap(@, @.imageData, @.setupDone) EXCEPT !.pc = "sample"]]
            /\ running' = c
    /\ UNCHANGED <<svc, setup, others>>

\* one turn of the loop the call is in
classifyStep(c) ==
    /\ running = c
    /\ call[c].pc \in {"loop", "sample", "apply"}
    /\ call' = [call EXCEPT ![c] =
                   IF @.pc = "sample" THEN sampleStep(@)
                   ELSE IF @.pc = "apply" THEN applyStep(@)
                   ELSE IF variant = "heuristic" THEN heuristicStep(@)
                   ELSE ruleStep(@)]
    /\ UNCHANGED <<svc, setup, running, others>>

\* region variant: if (regions.length > 0) predict and await predictions.data()
classifyPredict(c) ==
    /\ running = c
    /\ call[c].pc = "predict"
    /\ IF Len(call[c].regions) > 0
       THEN /\ \E pd \in Predictions(call[c].regions) :
                   call' = [call EXCEPT ![c].pc = "await_predict", ![c].predictionData = pd]
            /\ running' = 0
       ELSE /\ call' = [call EXCEPT ![c].pc = "finish"]
            /\ running' = c
    /\ UNCHANGED <<svc, setup, others>>

\* region variant, after predictions.data() resolved
classifyAfterPredict(c) ==
    /\ running = 0
    /\ call[c].pc = "await_predict"
    /\ call' = [call EXCEPT ![c].pc = "apply"]
    /\ running' = c
    /\ UNCHANGED <<svc, setup, others>>

\* classifyFinish with a dispose() of the model once the result is built
classifyFinishMutDispose(c) ==
    /\ running = c
    /\ call[c].pc = "finish"
    /\ \E canvasOk \in BOOLEAN :
           call' = [call EXCEPT ![c] = IF variant = "rule" THEN finishRule(@, canvasOk)
                                       ELSE finishCounted(@, canvasOk)]
    /\ running' = 0
    /\ model' = "null"
    /\ isModelLoaded' = FALSE
    /\ UNCHANGED <<variant, isInitializing, isTraining, modelSerial, fitCount, setup, others>>

\* percentages, createProcessedImage, return
classifyFinish(c) ==
    /\ running = c
    /\ call[c].pc = "finish"
    /\ \E canvasOk \in BOOLEAN :
           call' = [call EXCEPT ![c] = IF variant = "rule" THEN finishRule(@, canvasOk)
                                       ELSE finishCounted(@, canvasOk)]
    /\ running' = 0
    /\ UNCHANGED <<svc, setup, others>>

\* the caller takes the outcome (tfResult) and may call again
classifyReturn(c) ==
    /\ running = 0
    /\ call[c].pc \in {"returned", "thrown"}
    /\ call' = [call EXCEPT ![c] = [IdleCall EXCEPT !.result = call[c].result]]
    /\ UNCHANGED <<svc, setup, running, others>>

(***************************************************************************)
(* The set-up sequence a caller runs once:                                 *)
(*   await initialize(); await createModel(); await trainModel();          *)
(* Each action is the code between two awaits.  ok = FALSE is a rejected   *)
(* TensorFlow.js promise (import, setBackend, compile, fit).               *)
(***************************************************************************)
\* initialize(), up to its first await: the isInitializing guard, then the
\* flag is set and the method awaits loadTensorFlow() / tf.setBackend()
initializeEnter ==
    IF variant # "rule" /\ isInitializing
    THEN /\ setup' = "initialized"
         /\ UNCHANGED isInitializing
    ELSE /\ isInitializing' = (variant # "rule")
         /\ setup' = "initialize_await"

initialize ==
    /\ running = 0
    /\ setup = "start"
    /\ initializeEnter
    /\ UNCHANGED <<variant, model, isModelLoaded, isTraining, modelSerial, fitCount,
                   call, running, others>>

\* initialize(), after tf.ready(): the finally block clears isInitializing
initializeResume ==
    /\ running = 0
    /\ setup = "initialize_await"
    /\ \E ok \in BOOLEAN : setup' = IF ok THEN "initialized" ELSE "failed"
    /\ isInitializing' = FALSE
    /\ UNCHANGED <<variant, model, isModelLoaded, isTraining, modelSerial, fitCount,
                   call, running, others>>

\* createModel(), up to its first await; the rule variant disposes the model
\* it has, builds a new one without awaiting and has no early return
createModel ==
    /\ running = 0
    /\ setup = "initialized"
    /\ IF variant = "rule"
       THEN \E ok \in BOOLEAN :
                /\ model' = IF ok THEN "created" ELSE "null"
                /\ modelSerial' = IF ok THEN modelSerial + 1 ELSE modelSerial
                /\ isModelLoaded' = IF ok THEN TRUE ELSE isModelLoaded
                /\ setup' = IF ok THEN "modelCreated" ELSE "failed"
       ELSE IF model # "null" /\ isModelLoaded
       THEN /\ setup' = "modelCreated"
            /\ UNCHANGED <<model, modelSerial, isModelLoaded>>
       ELSE /\ setup' = "createModel_await"
            /\ UNCHANGED <<model, modelSerial, isModelLoaded>>
    /\ UNCHANGED <<variant, isInitializing, isTraining, fitCount, call, running, others>>

\* createModel(), after loadTensorFlow(): sequential(), compile(), isModelLoaded = true
createModelResume ==
    /\ running = 0
    /\ setup = "createModel_await"
    /\ \E ok \in BOOLEAN :
           /\ model' = IF ok THEN "created" ELSE model
           /\ modelSerial' = IF ok THEN modelSerial + 1 ELSE modelSerial
           /\ isModelLoaded' = IF ok THEN TRUE ELSE isModelLoaded
           /\ setup' = IF ok THEN "modelCreated" ELSE "failed"
    /\ UNCHANGED <<variant, isInitializing, isTraining, fitCount, call, running, others>>

\* trainModel(), up to its first await.  The heuristic variant has none: it
\* sets isTraining, marks the model loaded and clears isTraining in one go.
trainModel ==
    /\ running = 0
    /\ setup = "modelCreated"
    /\ IF variant = "rule"
       THEN /\ setup' = IF model = "null" THEN "failed" ELSE "trainModel_await"
            /\ UNCHANGED <<isModelLoaded, isTraining>>
       ELSE IF isTraining
       THEN /\ setup' = "done"
            /\ UNCHANGED <<isModelLoaded, isTraining>>
       ELSE IF variant = "heuristic"
       THEN /\ isModelLoaded' = TRUE
            /\ isTraining' = FALSE
            /\ setup' = "done"
       ELSE /\ isTraining' = TRUE
            /\ setup' = "trainModel_await"
            /\ UNCHANGED isModelLoaded
    /\ UNCHANGED <<variant, model, isInitializing, modelSerial, fitCount, call, running, others>>

\* trainModel(), after model.fit(): the weights are fitted, the region
\* variant marks the model loaded and its finally block clears isTraining;
\* the rule variant logs a failed fit and returns normally
trainModelResume ==
    /\ running = 0
    /\ setup = "trainModel_await"
    /\ \E ok \in BOOLEAN :
           /\ fitCount' = IF ok THEN fitCount + 1 ELSE fitCount
           /\ IF variant = "rule"
              THEN /\ setup' = "done"
                   /\ UNCHANGED <<isModelLoaded, isTraining>>
              ELSE /\ isModelLoaded' = IF ok THEN TRUE ELSE isModelLoaded
                   /\ isTraining' = FALSE
                   /\ setup' = IF ok THEN "done" ELSE "failed"
    /\ UNCHANGED <<variant, model, isInitializing, modelSerial, call, running, others>>

\* after a failed attempt the caller starts the sequence again
setupRetry ==
    /\ running = 0
    /\ setup = "failed"
    /\ setup' = "start"
    /\ UNCHANGED <<svc, call, running, others>>

(***************************************************************************)
(* The parts of the program the service does not touch, as they are when   *)
(* nothing has used them                                                   *)
(***************************************************************************)
IdleHook == [pc |-> "idle", isInitialized |-> FALSE, isModelReady |-> FALSE, error |-> FALSE]

NoSamples == <<>>

RouteUnused ==
    /\ serverTensorFlowService = FALSE
    /\ request = [c \in Callers |-> "idle"]

HooksUnused ==
    /\ globalIsInitialized = FALSE
    /\ globalInitializationPromise = "null"
    /\ hook = [h \in Hooks |-> IdleHook]

IdleOp ==
    [pc |-> "idle", method |-> "none", authenticated |-> "none", values |-> <<>>,
     nextId |-> 0, result |-> NoResult]

\* this.config = null
NullConfig == [loaded |-> FALSE, spreadsheetId |-> "unset", credentials |-> "missing"]

\* this.historialCache = null, this.fieldDataCache = null
NullCache == [present |-> FALSE, data |-> <<>>, timestamp |-> 0]

NeverFetched == [m \in {"getFieldData", "getHistorial"} |-> -1]

\* a GoogleSheetsService constructed without configuration, and no client
SheetsUnused ==
    /\ spreadsheetId = "unset"
    /\ credentialsEnv = "missing"
    /\ config = NullConfig
    /\ sheets = FALSE
    /\ historialCache = NullCache
    /\ fieldDataCache = NullCache
    /\ now = 0
    /\ mainSheet = <<>>
    /\ fieldSheet = <<>>
    /\ op = [p \in Clients |-> IdleOp]
    /\ lastFetch = NeverFetched

NoneCompleted == [m \in {"createModel", "trainModel"} |-> FALSE]

\* no hook instance has called a set-up method
SeqUnused ==
    /\ seq = [h \in Hooks |-> "none"]
    /\ completed = NoneCompleted

NoExtraction ==
    [file |-> 0, state |-> "unused", value |-> "none", timeout |-> FALSE, exif |-> FALSE]

EmptyGpsMap == [f \in Files |-> "none"]

\* the module of utils/exif.ts is loaded, window.gpsCache is undefined, the
\* upload list is empty
GpsUnused ==
    /\ gpsCache = EmptyGpsMap
    /\ windowGpsCache = [defined |-> FALSE, entries |-> EmptyGpsMap]
    /\ exifLoaded = FALSE
    /\ images = {}
    /\ extraction = [s \in Extractions |-> NoExtraction]

RestUnused == SeqUnused /\ GpsUnused

\* a TensorFlowService as constructed
ServiceConstructed ==
    /\ variant \in Variants
    /\ model = "null"
    /\ isModelLoaded = FALSE
    /\ isInitializing = FALSE
    /\ isTraining = FALSE
    /\ modelSerial = 0
    /\ fitCount = 0

(***************************************************************************)
(* The service from construction on: one caller runs the set-up sequence,  *)
(* the others call classifyImagePixels whenever they like.                 *)
(***************************************************************************)
Init ==
    /\ ServiceConstructed
    /\ setup = "start"
    /\ call = [c \in Callers |-> IdleCall]
    /\ running = 0
    /\ RouteUnused
    /\ HooksUnused
    /\ samples = NoSamples
    /\ SheetsUnused
    /\ RestUnused

Next ==
    \/ initialize
    \/ initializeResume
    \/ createModel
    \/ createModelResume
    \/ trainModel
    \/ trainModelResume
    \/ setupRetry
    \/ \E c \in Callers :
           \/ \E img \in SmallImages(variant) : classifyImagePixels(c, img)
           \/ classifyAfterLoad(c)
           \/ classifyStep(c)
           \/ classifyPredict(c)
           \/ classifyAfterPredict(c)
           \/ classifyFinish(c)
           \/ classifyReturn(c)

Spec == Init /\ [][Next]_vars

(***************************************************************************)
(* Classification on a service whose set-up has completed                  *)
(***************************************************************************)
InitReady ==
    /\ variant \in Variants
    /\ model = "created"
    /\ isModelLoaded = TRUE
    /\ isInitializing = FALSE
    /\ isTraining = FALSE
    /\ modelSerial = 1
    /\ fitCount = IF variant = "heuristic" THEN 0 ELSE 1
    /\ setup = "done"
    /\ call = [c \in Callers |-> IdleCall]
    /\ running = 0
    /\ RouteUnused
    /\ HooksUnused
    /\ samples = NoSamples
    /\ SheetsUnused
    /\ RestUnused

NextClassify ==
    \/ \E img \in TileImages(variant) : classifyImagePixels(1, img)
    \/ classifyAfterLoad(1)
    \/ classifyStep(1)
    \/ classifyPredict(1)
    \/ classifyAfterPredict(1)
    \/ classifyFinish(1)

SpecClassify == InitReady /\ [][NextClassify]_vars

(***************************************************************************)
(* The useTensorFlow hook (hooks/useTensorFlow.ts): every mounted          *)
(* component calls initialize(); the first call creates                    *)
(* globalInitializationPromise, whose body runs the set-up sequence.       *)
(***************************************************************************)
Awaiting(h) == hook[h].pc \in {"await_own", "await_promise"}

\* initialize() of the hook, up to its first await
hookInitialize(h) ==
    /\ running = 0
    /\ hook[h].pc = "idle"
    /\ IF globalIsInitialized
       THEN /\ hook' = [hook EXCEPT ![h].isInitialized = TRUE, ![h].isModelReady = TRUE]
            /\ UNCHANGED <<globalInitializationPromise, isInitializing, setup>>
       ELSE IF globalInitializationPromise # "null"
       THEN /\ hook' = [hook EXCEPT ![h].pc = "await_promise"]
            /\ UNCHANGED <<globalInitializationPromise, isInitializing, setup>>
       ELSE /\ setup = "none"
            /\ hook' = [hook EXCEPT ![h].pc = "await_own", ![h].error = FALSE]
            /\ globalInitializationPromise' = "pending"
            /\ initializeEnter
    /\ UNCHANGED <<variant, model, isModelLoaded, isTraining, modelSerial, fitCount,
                   call, running, route, globalIsInitialized, samples, gss, aux>>

\* trainModel() returned to the body of the promise: globalIsInitialized = true,
\* the promise resolves and every initialize() awaiting it sets its state
hookSetupDone ==
    /\ running = 0
    /\ setup = "done"
    /\ globalInitializationPromise = "pending"
    /\ globalIsInitialized' = TRUE
    /\ globalInitializationPromise' = "resolved"
    /\ hook' = [h \in Hooks |->
                   IF Awaiting(h)
                   THEN [hook[h] EXCEPT !.pc = "idle", !.isInitialized = TRUE, !.isModelReady = TRUE]
                   ELSE hook[h]]
    /\ UNCHANGED <<svc, setup, call, running, route, samples, gss, aux>>

\* a set-up method threw: the promise rejects, the initialize() that created
\* it resets globalInitializationPromise, every awaiting initialize() sets error
hookSetupFailed ==
    /\ running = 0
    /\ setup = "failed"
    /\ globalInitializationPromise = "pending"
    /\ globalInitializationPromise' = "null"
    /\ setup' = "none"
    /\ hook' = [h \in Hooks |->
                   IF Awaiting(h) THEN [hook[h] EXCEPT !.pc = "idle", !.error = TRUE]
                   ELSE hook[h]]
    /\ UNCHANGED <<svc, call, running, route, globalIsInitialized, samples, gss, aux>>

\* a caller without the global guard (the hook of utils/constants.ts, run by
\* every component on mount) runs the sequence on the set-up service again
setupAgain ==
    /\ running = 0
    /\ setup = "done"
    /\ modelSerial < MaxSetupRuns
    /\ fitCount < MaxSetupRuns
    /\ setup' = "start"
    /\ UNCHANGED <<svc, call, running, others>>

\* the same caller after a failed run of its own
setupRetryAgain ==
    /\ globalInitializationPromise # "pending"
    /\ setupRetry

InitSetup ==
    /\ ServiceConstructed
    /\ setup = "none"
    /\ call = [c \in Callers |-> IdleCall]
    /\ running = 0
    /\ RouteUnused
    /\ HooksUnused
    /\ samples = NoSamples
    /\ SheetsUnused
    /\ RestUnused

NextSetup ==
    \/ \E h \in Hooks : hookInitialize(h)
    \/ hookSetupDone
    \/ hookSetupFailed
    \/ initialize
    \/ initializeResume
    \/ createModel
    \/ createModelResume
    \/ trainModel
    \/ trainModelResume
    \/ setupRetryAgain
    \/ setupAgain

SpecSetup == InitSetup /\ [][NextSetup]_vars

(***************************************************************************)
(* trainModel() of the per-pixel variant (tensorflowService.ts, third      *)
(* class): the only place of the source that applies a fixed brightness    *)
(* threshold.  It labels random samples; classifyImagePixels of this       *)
(* variant asks the trained network.  r, g, b = Math.random() are modelled *)
(* in 255ths, the scale classifyImagePixels feeds the network with.        *)
(***************************************************************************)
LABEL_LIGHT == <<1, 0>>
LABEL_SHADOW == <<0, 1>>

\* brightness = (r + g + b) / 3; if (brightness > 0.5) Light else Shadow
trainingLabel(r, g, b) == IF 2 * (r + g + b) > 3 * 255 THEN LABEL_LIGHT ELSE LABEL_SHADOW

SampleColors ==
    {Grey(v) : v \in {0, 127, 128, 129, 130, 131, 254}}
        \cup {<<254, 254, 0>>, <<130, 131, 130>>, <<0, 0, 254>>}

\* one iteration of for (let i = 0; i < 1000; i++)
generateSample ==
    /\ running = 0
    /\ setup = "trainModel_samples"
    /\ Len(samples) < MaxSamples
    /\ \E c \in SampleColors :
           samples' = Append(samples, [features |-> c, label |-> trainingLabel(c[1], c[2], c[3])])
    /\ UNCHANGED <<svc, setup, call, running, route, hooks, gss, aux>>

\* the loop is over: tensor2d(features), tensor2d(labels), await this.model.fit(xs, ys)
trainFit ==
    /\ running = 0
    /\ setup = "trainModel_samples"
    /\ Len(samples) = MaxSamples
    /\ setup' = "trainModel_await"
    /\ UNCHANGED <<svc, call, running, others>>

\* trainModel() has set isTraining and loaded TensorFlow.js
InitTrain ==
    /\ variant = "pixel"
    /\ model = "created"
    /\ isModelLoaded = TRUE
    /\ isInitializing = FALSE
    /\ isTraining = TRUE
    /\ modelSerial = 1
    /\ fitCount = 0
    /\ setup = "trainModel_samples"
    /\ call = [c \in Callers |-> IdleCall]
    /\ running = 0
    /\ RouteUnused
    /\ HooksUnused
    /\ samples = NoSamples
    /\ SheetsUnused
    /\ RestUnused

NextTrain ==
    \/ generateSample
    \/ trainFit
    \/ trainModelResume

SpecTrain == InitTrain /\ [][NextTrain]_vars

(***************************************************************************)
(* POST /api/procesar-imagen (app/api/procesar-imagen/route.ts): every     *)
(* request runs the handler; the first one to find the singleton null      *)
(* creates the service and runs the set-up sequence on it.                 *)
(***************************************************************************)
Responded == {"responded200", "responded400", "responded500"}

\* the handler from the form data to its first await after it: the file
\* check, the singleton check, new TensorFlowService() and the call of
\* initialize(), or straight on to file.arrayBuffer()
POST(c, hasFile) ==
    /\ running = 0
    /\ request[c] \in {"idle"} \cup Responded
    /\ call[c].pc = "idle"
    /\ IF ~hasFile
       THEN /\ request' = [request EXCEPT ![c] = "responded400"]
            /\ UNCHANGED <<serverTensorFlowService, isInitializing, setup>>
       ELSE IF ~serverTensorFlowService
       THEN /\ setup = "none"
            /\ serverTensorFlowService' = TRUE
            /\ request' = [request EXCEPT ![c] = "setup"]
            /\ initializeEnter
       ELSE /\ request' = [request EXCEPT ![c] = "loadImage"]
            /\ UNCHANGED <<serverTensorFlowService, isInitializing, setup>>
    /\ UNCHANGED <<variant, model, isModelLoaded, isTraining, modelSerial, fitCount,
                   call, running, hooks, samples, gss, aux>>

\* the request that runs the set-up: trainModel() returned, or a set-up
\* method threw and the catch block answers 500
POSTAfterSetup(c) ==
    /\ running = 0
    /\ request[c] = "setup"
    /\ setup \in {"done", "failed"}
    /\ request' = [request EXCEPT ![c] = IF setup = "done" THEN "loadImage" ELSE "responded500"]
    /\ UNCHANGED <<svc, setup, call, running, serverTensorFlowService, hooks, samples, gss, aux>>

\* loadImage() rejects the uploaded bytes
POSTImageError(c) ==
    /\ running = 0
    /\ request[c] = "loadImage"
    /\ call[c].pc = "idle"
    /\ request' = [request EXCEPT ![c] = "responded500"]
    /\ UNCHANGED <<svc, setup, call, running, serverTensorFlowService, hooks, samples, gss, aux>>

\* classifyImagePixels returned or threw: the response
POSTRespond(c) ==
    /\ running = 0
    /\ request[c] = "loadImage"
    /\ call[c].pc \in {"returned", "thrown"}
    /\ request' = [request EXCEPT ![c] = IF call[c].pc = "returned" THEN "responded200"
                                         ELSE "responded500"]
    /\ UNCHANGED <<svc, setup, call, running, serverTensorFlowService, hooks, samples, gss, aux>>

\* the image is decoded and drawn: await serverTensorFlowService.classifyImagePixels(...)
POSTClassify(c, img) ==
    /\ request[c] = "loadImage"
    /\ classifyImagePixels(c, img)

\* the handler has returned its response
POSTReturn(c) ==
    /\ request[c] \in Responded
    /\ classifyReturn(c)

InitRoute ==
    /\ ServiceConstructed
    /\ setup = "none"
    /\ call = [c \in Callers |-> IdleCall]
    /\ running = 0
    /\ RouteUnused
    /\ HooksUnused
    /\ samples = NoSamples
    /\ SheetsUnused
    /\ RestUnused

NextRoute ==
    \/ initializeResume
    \/ createModel
    \/ createModelResume
    \/ trainModel
    \/ trainModelResume
    \/ \E c \in Callers :
           \/ \E hasFile \in BOOLEAN : POST(c, hasFile)
           \/ POSTAfterSetup(c)
           \/ POSTImageError(c)
           \/ \E img \in SmallImages(variant) : POSTClassify(c, img)
           \/ classifyAfterLoad(c)
           \/ classifyStep(c)
           \/ classifyPredict(c)
           \/ classifyAfterPredict(c)
           \/ classifyFinish(c)
           \/ POSTRespond(c)
           \/ POSTReturn(c)

SpecRoute == InitRoute /\ [][NextRoute]_vars

(***************************************************************************)
(* GoogleSheetsService (services/googleSheetsService.ts, first class): the *)
(* two caches, demo mode, and the three public methods in the steps the    *)
(* event loop can observe.  A Sheets request is served by the spreadsheet  *)
(* at one moment (sheetsServe, idsServe, appendServe) and its promise      *)
(* settles at a later one.                                                 *)
(***************************************************************************)
cacheTimeout == 300000

\* the clock is read in ticks of half the cache timeout
TickMs == cacheTimeout \div 2

DateNow == now * TickMs

Gets == {"getFieldData", "getHistorial"}

\* getDemoFieldData() and getDemoHistorial(): the built-in records, by their ids
DemoFieldData == <<1, 2, 3>>
DemoHistorial == <<1, 2>>

Demo(m) == IF m = "getFieldData" THEN DemoFieldData ELSE DemoHistorial

\* loadConfig(): no configuration without a spreadsheet id or with the id
\* 'demo'; JSON.parse of malformed credentials throws and leaves config null
loadConfig(id, cred) ==
    IF id \in {"unset", "demo"} THEN NullConfig
    ELSE IF cred = "malformed" THEN NullConfig
    ELSE [loaded |-> TRUE, spreadsheetId |-> id, credentials |-> cred]

\* !this.config || this.config.spreadsheetId === 'demo'
demoModeMutNever(cfg) == FALSE

demoMode(cfg) == ~cfg.loaded \/ cfg.spreadsheetId = "demo"

\* authenticate(): false without credentials or token, false when the
\* OAuth client cannot be built, true (and this.sheets set) otherwise
authenticate(cfg) == cfg.loaded /\ cfg.credentials = "valid"

\* this.xCache && (Date.now() - this.xCache.timestamp) < this.cacheTimeout
cacheHitMutLe(cache) == cache.present /\ (DateNow - cache.timestamp) <= cacheTimeout

cacheHit(cache) == cache.present /\ (DateNow - cache.timestamp) < cacheTimeout

cacheOf(m) == IF m = "getFieldData" THEN fieldDataCache ELSE historialCache

Callable(p) == op[p].pc \in {"idle", "returned", "thrown"}

DataResult(source, d) == [kind |-> "data", source |-> source, success |-> TRUE, data |-> d]

\* the catch block of getFieldData / getHistorial: log, return the demo data
catchGetMutRethrow(o) ==
    [o EXCEPT !.pc = "thrown", !.values = <<>>, !.result = [kind |-> "error"]]

catchGet(o) ==
    [o EXCEPT !.pc = "returned", !.values = <<>>, !.result = DataResult("demo", Demo(o.method))]

\* getFieldData() / getHistorial(), up to the first Sheets request
getCall(p, m) ==
    /\ Callable(p)
    /\ LET o == [IdleOp EXCEPT !.method = m]
       IN  IF cacheHit(cacheOf(m))
           THEN /\ op' = [op EXCEPT ![p] = [o EXCEPT !.pc = "returned",
                                                      !.result = DataResult("cache", cacheOf(m).data)]]
                /\ UNCHANGED sheets
           ELSE IF demoMode(config)
           THEN /\ op' = [op EXCEPT ![p] = [o EXCEPT !.pc = "returned",
                                                      !.result = DataResult("demo", Demo(m))]]
                /\ UNCHANGED sheets
           ELSE IF ~sheets /\ ~authenticate(config)
           THEN /\ op' = [op EXCEPT ![p] = [o EXCEPT !.pc = "returned", !.authenticated = "false",
                                                      !.result = DataResult("demo", Demo(m))]]
                /\ UNCHANGED sheets
           ELSE /\ op' = [op EXCEPT ![p] = [o EXCEPT !.pc = "await_get",
                                                      !.authenticated = IF sheets THEN "none" ELSE "true"]]
                /\ sheets' = TRUE
    /\ UNCHANGED <<spreadsheetId, credentialsEnv, config, historialCache, fieldDataCache,
                   now, mainSheet, fieldSheet, lastFetch, tfs>>

\* the spreadsheet answers spreadsheets.values.get
sheetsServe(p) ==
    /\ op[p].pc = "await_get"
    /\ op' = [op EXCEPT ![p].pc = "get_served",
                        ![p].values = IF op[p].method = "getFieldData" THEN fieldSheet ELSE mainSheet]
    /\ UNCHANGED <<spreadsheetId, credentialsEnv, config, sheets, historialCache, fieldDataCache,
                   now, mainSheet, fieldSheet, lastFetch, tfs>>

\* the request of getFieldData / getHistorial settles: rejected, the catch
\* block; fulfilled, the rows are processed, cached and returned (getFieldData
\* returns an empty result uncached when the sheet holds the header only)
getResume(p, ok) ==
    /\ op[p].pc \in {"await_get", "get_served"}
    /\ ok => op[p].pc = "get_served"
    /\ LET m == op[p].method
           entry == [present |-> TRUE, data |-> op[p].values, timestamp |-> DateNow]
       IN  IF ~ok
           THEN /\ op' = [op EXCEPT ![p] = catchGet(@)]
                /\ UNCHANGED <<historialCache, fieldDataCache, lastFetch>>
           ELSE IF m = "getFieldData" /\ Len(op[p].values) = 0
           THEN /\ op' = [op EXCEPT ![p].pc = "returned", ![p].values = <<>>,
                                    ![p].result = DataResult("sheet", <<>>)]
                /\ lastFetch' = [lastFetch EXCEPT ![m] = DateNow]
                /\ UNCHANGED <<historialCache, fieldDataCache>>
           ELSE /\ op' = [op EXCEPT ![p].pc = "returned", ![p].values = <<>>,
                                    ![p].result = DataResult("sheet", op[p].values)]
                /\ lastFetch' = [lastFetch EXCEPT ![m] = DateNow]
                /\ IF m = "getFieldData"
                   THEN fieldDataCache' = entry /\ UNCHANGED historialCache
                   ELSE historialCache' = entry /\ UNCHANGED fieldDataCache
    /\ UNCHANGED <<spreadsheetId, credentialsEnv, config, sheets,
                   now, mainSheet, fieldSheet, tfs>>

\* the saveProcessingResult calls that have not appended their row yet
Saving == {q \in Clients : op[q].pc \in {"await_ids", "ids_served", "await_append"}}

\* saveProcessingResult(), up to the request of getNextSequentialId()
saveCall(p) ==
    /\ Callable(p)
    /\ Len(mainSheet) + Cardinality(Saving) < MaxRows
    /\ LET o == [IdleOp EXCEPT !.method = "saveProcessingResult"]
       IN  IF demoMode(config)
           THEN /\ op' = [op EXCEPT ![p] = [o EXCEPT !.pc = "returned", !.result = [kind |-> "void"]]]
                /\ UNCHANGED sheets
           ELSE IF ~sheets /\ ~authenticate(config)
           THEN /\ op' = [op EXCEPT ![p] = [o EXCEPT !.pc = "thrown", !.authenticated = "false",
                                                      !.result = [kind |-> "error"]]]
                /\ UNCHANGED sheets
           ELSE /\ op' = [op EXCEPT ![p] = [o EXCEPT !.pc = "await_ids",
                                                      !.authenticated = IF sheets THEN "none" ELSE "true"]]
                /\ sheets' = TRUE
    /\ UNCHANGED <<spreadsheetId, credentialsEnv, config, historialCache, fieldDataCache,
                   now, mainSheet, fieldSheet, lastFetch, tfs>>

\* the spreadsheet answers the read of column A
idsServe(p) ==
    /\ op[p].pc = "await_ids"
    /\ op' = [op EXCEPT ![p].pc = "ids_served", ![p].values = mainSheet]
    /\ UNCHANGED <<spreadsheetId, credentialsEnv, config, sheets, historialCache, fieldDataCache,
                   now, mainSheet, fieldSheet, lastFetch, tfs>>

\* the highest numeric id of column A, 0 when there is none
RECURSIVE maxIdOf(_)
maxIdOf(values) ==
    IF values = <<>> THEN 0
    ELSE LET rest == maxIdOf(Tail(values))
         IN  IF Head(values) > rest THEN Head(values) ELSE rest

\* getNextSequentialId(): "If no valid ID found, start from 100"; maxId + 1
nextSequentialId(values) ==
    (IF maxIdOf(values) = 0 THEN 100 ELSE maxIdOf(values)) + 1

FALLBACK_ID == 999

\* getNextSequentialId() returns (999 when its request was rejected), the row
\* is built and spreadsheets.values.append is requested
idsResume(p, ok) ==
    /\ op[p].pc \in {"await_ids", "ids_served"}
    /\ ok => op[p].pc = "ids_served"
    /\ op' = [op EXCEPT ![p].pc = "await_append",
                        ![p].values = <<>>,
                        ![p].nextId = IF ok THEN nextSequentialId(op[p].values) ELSE FALLBACK_ID]
    /\ UNCHANGED <<spreadsheetId, credentialsEnv, config, sheets, historialCache, fieldDataCache,
                   now, mainSheet, fieldSheet, lastFetch, tfs>>

\* the spreadsheet appends the row
appendServe(p) ==
    /\ op[p].pc = "await_append"
    /\ mainSheet' = Append(mainSheet, op[p].nextId)
    /\ op' = [op EXCEPT ![p].pc = "append_served"]
    /\ UNCHANGED <<spreadsheetId, credentialsEnv, config, sheets, historialCache, fieldDataCache,
                   now, fieldSheet, lastFetch, tfs>>

\* the append settles: fulfilled, "Clear cache to force refresh on next load"
\* and return; rejected, the catch block rethrows
appendResume(p, ok) ==
    /\ op[p].pc \in {"await_append", "append_served"}
    /\ ok <=> op[p].pc = "append_served"
    /\ IF ok
       THEN /\ historialCache' = NullCache
            /\ op' = [op EXCEPT ![p].pc = "returned", ![p].nextId = 0,
                                ![p].result = [kind |-> "void"]]
       ELSE /\ op' = [op EXCEPT ![p].pc = "thrown", ![p].nextId = 0,
                                ![p].result = [kind |-> "error"]]
            /\ UNCHANGED historialCache
    /\ UNCHANGED <<spreadsheetId, credentialsEnv, config, sheets, fieldDataCache,
                   now, mainSheet, fieldSheet, lastFetch, tfs>>

\* time passes
tick ==
    /\ now < MaxTicks
    /\ now' = now + 1
    /\ UNCHANGED <<spreadsheetId, credentialsEnv, config, sheets, historialCache, fieldDataCache,
                   mainSheet, fieldSheet, op, lastFetch, tfs>>

\* the classification side, unused
TensorFlowUnused ==
    /\ variant = "heuristic"
    /\ model = "null"
    /\ isModelLoaded = FALSE
    /\ isInitializing = FALSE
    /\ isTraining = FALSE
    /\ modelSerial = 0
    /\ fitCount = 0
    /\ setup = "none"
    /\ call = [c \in Callers |-> IdleCall]
    /\ running = 0
    /\ RouteUnused
    /\ HooksUnused
    /\ samples = NoSamples
    /\ RestUnused

\* the module is loaded: new GoogleSheetsService() reads the environment
InitSheets ==
    /\ TensorFlowUnused
    /\ spreadsheetId \in {"unset", "demo", "real"}
    /\ credentialsEnv \in {"valid", "missing", "incomplete", "malformed"}
    /\ config = loadConfig(spreadsheetId, credentialsEnv)
    /\ sheets = FALSE
    /\ historialCache = NullCache
    /\ fieldDataCache = NullCache
    /\ now = 0
    /\ mainSheet \in {<<>>, <<101>>}
    /\ fieldSheet \in {<<>>, <<7>>}
    /\ op = [p \in Clients |-> IdleOp]
    /\ lastFetch = NeverFetched

NextSheets ==
    \/ tick
    \/ \E p \in Clients :
           \/ \E m \in Gets : getCall(p, m)
           \/ sheetsServe(p)
           \/ \E ok \in BOOLEAN : getResume(p, ok)
           \/ saveCall(p)
           \/ idsServe(p)
           \/ \E ok \in BOOLEAN : idsResume(p, ok)
           \/ appendServe(p)
           \/ \E ok \in BOOLEAN : appendResume(p, ok)

SpecSheets == InitSheets /\ [][NextSheets]_vars

(***************************************************************************)
(* The hook of utils/constants.ts: every hook instance runs                *)
(*   await initialize(); await createModel(); await trainModel();          *)
(* on the shared tensorFlowService when its component mounts, with no      *)
(* module-level guard, so several sequences run at once.  seq[h] is the    *)
(* position of the sequence of instance h; the methods are those of the    *)
(* set-up sequence above, each action the code between two awaits.         *)
(***************************************************************************)
\* the hook's initialize() calls tensorFlowService.initialize(): the
\* isInitializing guard returns at once, otherwise the flag is set and the
\* method awaits loadTensorFlow() / tf.setBackend()
seqInitializeEnter(h) ==
    /\ seq[h] \in {"none", "done", "failed"}
    /\ seq[h] # "none" => (modelSerial < MaxSetupRuns /\ fitCount < MaxSetupRuns)
    /\ IF variant # "rule" /\ isInitializing
       THEN /\ seq' = [seq EXCEPT ![h] = "initialized"]
            /\ UNCHANGED isInitializing
       ELSE /\ isInitializing' = (variant # "rule")
            /\ seq' = [seq EXCEPT ![h] = "initialize_await"]

seqInitialize(h) ==
    /\ running = 0
    /\ seqInitializeEnter(h)
    /\ UNCHANGED <<variant, model, isModelLoaded, isTraining, modelSerial, fitCount,
                   setup, call, running, route, hooks, samples, gss, gps, completed>>

\* initialize(), after tf.ready(): the finally block clears isInitializing
seqInitializeResume(h) ==
    /\ running = 0
    /\ seq[h] = "initialize_await"
    /\ \E ok \in BOOLEAN : seq' = [seq EXCEPT ![h] = IF ok THEN "initialized" ELSE "failed"]
    /\ isInitializing' = FALSE
    /\ UNCHANGED <<variant, model, isModelLoaded, isTraining, modelSerial, fitCount,
                   setup, call, running, route, hooks, samples, gss, gps, completed>>

\* createModel(), up to its first await (the rule variant has none)
seqCreateModel(h) ==
    /\ running = 0
    /\ seq[h] = "initialized"
    /\ IF variant = "rule"
       THEN \E ok \in BOOLEAN :
                /\ model' = IF ok THEN "created" ELSE "null"
                /\ modelSerial' = IF ok THEN modelSerial + 1 ELSE modelSerial
                /\ isModelLoaded' = IF ok THEN TRUE ELSE isModelLoaded
                /\ seq' = [seq EXCEPT ![h] = IF ok THEN "modelCreated" ELSE "failed"]
                /\ completed' = IF ok THEN [completed EXCEPT !["createModel"] = TRUE]
                                ELSE completed
       ELSE IF model # "null" /\ isModelLoaded
       THEN /\ seq' = [seq EXCEPT ![h] = "modelCreated"]
            /\ completed' = [completed EXCEPT !["createModel"] = TRUE]
            /\ UNCHANGED <<model, modelSerial, isModelLoaded>>
       ELSE /\ seq' = [seq EXCEPT ![h] = "createModel_await"]
            /\ UNCHANGED <<model, modelSerial, isModelLoaded, completed>>
    /\ UNCHANGED <<variant, isInitializing, isTraining, fitCount,
                   setup, call, running, route, hooks, samples, gss, gps>>

\* createModel(), after loadTensorFlow(): sequential(), compile(), isModelLoaded = true
seqCreateModelResume(h) ==
    /\ running = 0
    /\ seq[h] = "createModel_await"
    /\ \E ok \in BOOLEAN :
           /\ model' = IF ok THEN "created" ELSE model
           /\ modelSerial' = IF ok THEN modelSerial + 1 ELSE modelSerial
           /\ isModelLoaded' = IF ok THEN TRUE ELSE isModelLoaded
           /\ seq' = [seq EXCEPT ![h] = IF ok THEN "modelCreated" ELSE "failed"]
           /\ completed' = IF ok THEN [completed EXCEPT !["createModel"] = TRUE] ELSE completed
    /\ UNCHANGED <<variant, isInitializing, isTraining, fitCount,
                   setup, call, running, route, hooks, samples, gss, gps>>

\* trainModel(), up to its first await: the rule variant throws without a
\* model; the isTraining guard returns at once; the heuristic variant has no
\* await and marks the model loaded
seqTrainModel(h) ==
    /\ running = 0
    /\ seq[h] = "modelCreated"
    /\ IF variant = "rule"
       THEN /\ seq' = [seq EXCEPT ![h] = IF model = "null" THEN "failed" ELSE "trainModel_await"]
            /\ UNCHANGED <<isModelLoaded, isTraining, completed>>
       ELSE IF isTraining
       THEN /\ seq' = [seq EXCEPT ![h] = "done"]
            /\ completed' = [completed EXCEPT !["trainModel"] = TRUE]
            /\ UNCHANGED <<isModelLoaded, isTraining>>
       ELSE IF variant = "heuristic"
       THEN /\ isModelLoaded' = TRUE
            /\ isTraining' = FALSE
            /\ seq' = [seq EXCEPT ![h] = "done"]
            /\ completed' = [completed EXCEPT !["trainModel"] = TRUE]
       ELSE /\ isTraining' = TRUE
            /\ seq' = [seq EXCEPT ![h] = "trainModel_await"]
            /\ UNCHANGED <<isModelLoaded, completed>>
    /\ UNCHANGED <<variant, model, isInitializing, modelSerial, fitCount,
                   setup, call, running, route, hooks, samples, gss, gps>>

\* trainModel(), after model.fit(): the region variant marks the model loaded
\* and its finally block clears isTraining; the rule variant logs a failed
\* fit and returns normally
seqTrainModelResume(h) ==
    /\ running = 0
    /\ seq[h] = "trainModel_await"
    /\ \E ok \in BOOLEAN :
           /\ fitCount' = IF ok THEN fitCount + 1 ELSE fitCount
           /\ IF variant = "rule"
              THEN /\ seq' = [seq EXCEPT ![h] = "done"]
                   /\ completed' = [completed EXCEPT !["trainModel"] = TRUE]
                   /\ UNCHANGED <<isModelLoaded, isTraining>>
              ELSE /\ isModelLoaded' = IF ok THEN TRUE ELSE isModelLoaded
                   /\ isTraining' = FALSE
                   /\ seq' = [seq EXCEPT ![h] = IF ok THEN "done" ELSE "failed"]
                   /\ completed' = IF ok THEN [completed EXCEPT !["trainModel"] = TRUE]
                                   ELSE completed
    /\ UNCHANGED <<variant, model, isInitializing, modelSerial,
                   setup, call, running, route, hooks, samples, gss, gps>>

\* isReady()
isReady ==
    IF variant = "rule" THEN isModelLoaded /\ model # "null"
    ELSE isModelLoaded /\ ~isInitializing /\ ~isTraining

InitSeq ==
    /\ ServiceConstructed
    /\ setup = "none"
    /\ call = [c \in Callers |-> IdleCall]
    /\ running = 0
    /\ RouteUnused
    /\ HooksUnused
    /\ samples = NoSamples
    /\ SheetsUnused
    /\ RestUnused

NextSeq ==
    \E h \in Hooks :
        \/ seqInitialize(h)
        \/ seqInitializeResume(h)
        \/ seqCreateModel(h)
        \/ seqCreateModelResume(h)
        \/ seqTrainModel(h)
        \/ seqTrainModelResume(h)

SpecSeq == InitSeq /\ [][NextSeq]_vars

(***************************************************************************)
(* The useTensorFlow hook (hooks/useTensorFlow.ts) with one set-up         *)
(* sequence per hook instance: seq[h] is the position of the body of the   *)
(* promise that the initialize() of instance h created.                    *)
(***************************************************************************)
\* if (globalIsInitialized)
alreadyInitialized == globalIsInitialized

\* if (globalInitializationPromise)
alreadyInitializingMutNever == FALSE

alreadyInitializing == globalInitializationPromise # "null"

\* initialize() of the hook, up to its first await: the two guards, or a new
\* promise whose body runs up to the first await of tensorFlowService.initialize()
useInitialize(h) ==
    /\ running = 0
    /\ hook[h].pc = "idle"
    /\ IF alreadyInitialized
       THEN /\ hook' = [hook EXCEPT ![h].isInitialized = TRUE, ![h].isModelReady = TRUE]
            /\ UNCHANGED <<globalInitializationPromise, isInitializing, seq>>
       ELSE IF alreadyInitializing
       THEN /\ hook' = [hook EXCEPT ![h].pc = "await_promise"]
            /\ UNCHANGED <<globalInitializationPromise, isInitializing, seq>>
       ELSE /\ hook' = [hook EXCEPT ![h].pc = "await_own", ![h].error = FALSE]
            /\ globalInitializationPromise' = "pending"
            /\ seqInitializeEnter(h)
    /\ UNCHANGED <<variant, model, isModelLoaded, isTraining, modelSerial, fitCount,
                   setup, call, running, route, globalIsInitialized, samples, gss, gps, completed>>

\* trainModel() returned to the body of the promise of instance h:
\* globalIsInitialized = true, the promise resolves and every initialize()
\* awaiting it sets its state
useSetupDone(h) ==
    /\ running = 0
    /\ hook[h].pc = "await_own"
    /\ seq[h] = "done"
    /\ globalIsInitialized' = TRUE
    /\ globalInitializationPromise' = "resolved"
    /\ hook' = [g \in Hooks |->
                   IF Awaiting(g)
                   THEN [hook[g] EXCEPT !.pc = "idle", !.isInitialized = TRUE, !.isModelReady = TRUE]
                   ELSE hook[g]]
    /\ UNCHANGED <<svc, setup, call, running, route, samples, gss, aux>>

\* a set-up method threw in the body of the promise of instance h: the
\* promise rejects, every initialize() awaiting it sets error, and the one
\* that created it resets globalInitializationPromise
useSetupFailed(h) ==
    /\ running = 0
    /\ hook[h].pc = "await_own"
    /\ seq[h] = "failed"
    /\ globalInitializationPromise' = "null"
    /\ hook' = [g \in Hooks |->
                   IF Awaiting(g) THEN [hook[g] EXCEPT !.pc = "idle", !.error = TRUE]
                   ELSE hook[g]]
    /\ UNCHANGED <<svc, setup, call, running, route, globalIsInitialized, samples, gss, aux>>

NextHooks ==
    \E h \in Hooks :
        \/ useInitialize(h)
        \/ useSetupDone(h)
        \/ useSetupFailed(h)
        \/ seqInitializeResume(h)
        \/ seqCreateModel(h)
        \/ seqCreateModelResume(h)
        \/ seqTrainModel(h)
        \/ seqTrainModelResume(h)

SpecHooks == InitSeq /\ [][NextHooks]_vars

(***************************************************************************)
(* The GPS cache (utils/exif.ts) and the upload list that fills and clears *)
(* it (hooks/useImageUpload.ts).  A file is its cache key                  *)
(* name_size_lastModified.  An extractGpsFromImage call is a promise, a    *)
(* 5-second timeout and an EXIF callback; the two fire in either order.    *)
(***************************************************************************)
\* the files whose EXIF block carries GPSLatitude / GPSLongitude
FileHasGps(f) == f = 1

\* the first call slot not used yet
FreeSlot(s) ==
    /\ extraction[s].state = "unused"
    /\ \A t \in Extractions : t < s => extraction[t].state # "unused"

\* resolve(value): a promise settles once, later calls of resolve are ignored
resolve(e, value) ==
    IF e.state = "settled" THEN e ELSE [e EXCEPT !.state = "settled", !.value = value]

\* extractGpsFromImage(file), the executor of its promise: the cache lookup,
\* the window.EXIF check, then setTimeout and EXIF.getData
extractGpsFromImage(s, f) ==
    LET e == [NoExtraction EXCEPT !.file = f, !.state = "pending"]
    IN  IF gpsCache[f] # "none"
        THEN /\ extraction' = [extraction EXCEPT ![s] = resolve(e, gpsCache[f])]
             /\ UNCHANGED gpsCache
        ELSE IF ~exifLoaded
        THEN /\ gpsCache' = [gpsCache EXCEPT ![f] = "null"]
             /\ extraction' = [extraction EXCEPT ![s] = resolve(e, "null")]
        ELSE /\ extraction' = [extraction EXCEPT ![s] = [e EXCEPT !.timeout = TRUE, !.exif = TRUE]]
             /\ UNCHANGED gpsCache

\* addImages([file]): the file joins the list and its GPS extraction starts
addImages(s, f) ==
    /\ FreeSlot(s)
    /\ images' = images \cup {f}
    /\ extractGpsFromImage(s, f)
    /\ UNCHANGED <<windowGpsCache, exifLoaded, nongps>>

\* the setTimeout callback: cache null, resolve(null)
gpsTimeout(s) ==
    /\ extraction[s].timeout
    /\ gpsCache' = [gpsCache EXCEPT ![extraction[s].file] = "null"]
    /\ extraction' = [extraction EXCEPT ![s] = resolve([@ EXCEPT !.timeout = FALSE], "null")]
    /\ UNCHANGED <<windowGpsCache, exifLoaded, images, nongps>>

\* the EXIF.getData callback: clearTimeout, then the coordinates (or null
\* without GPS tags or when reading the tags throws) are cached and resolved
exifCallback(s, ok) ==
    /\ extraction[s].exif
    /\ LET f == extraction[s].file
           coordinates == IF ok /\ FileHasGps(f) THEN "coords" ELSE "null"
       IN  /\ gpsCache' = [gpsCache EXCEPT ![f] = coordinates]
           /\ extraction' = [extraction EXCEPT
                                ![s] = resolve([@ EXCEPT !.timeout = FALSE, !.exif = FALSE],
                                               coordinates)]
    /\ UNCHANGED <<windowGpsCache, exifLoaded, images, nongps>>

\* gpsCache.delete(cacheKey)
deleteKey(map, f) == [map EXCEPT ![f] = "none"]

\* removeImage(file): the file leaves the list; "Clear GPS cache for removed
\* image" deletes the key from window.gpsCache when that is defined
removeImage(f) ==
    /\ f \in images
    /\ images' = images \ {f}
    /\ IF windowGpsCache.defined
       THEN windowGpsCache' = [windowGpsCache EXCEPT !.entries = deleteKey(@, f)]
       ELSE UNCHANGED windowGpsCache
    /\ UNCHANGED <<gpsCache, exifLoaded, extraction, nongps>>

\* App.tsx has loaded the EXIF library
exifLoad ==
    /\ ~exifLoaded
    /\ exifLoaded' = TRUE
    /\ UNCHANGED <<gpsCache, windowGpsCache, images, extraction, nongps>>

InitGps ==
    /\ TensorFlowUnused
    /\ SheetsUnused

NextGps ==
    \/ exifLoad
    \/ \E f \in Files : removeImage(f)
    \/ \E s \in Extractions :
           \/ \E f \in Files : addImages(s, f)
           \/ gpsTimeout(s)
           \/ \E ok \in BOOLEAN : exifCallback(s, ok)

SpecGps == InitGps /\ [][NextGps]_vars

(***************************************************************************)
(* Properties of one classification (checked under SpecClassify)           *)
(***************************************************************************)
RegionLevel == variant \in {"heuristic", "region"}

Returned(c) == call[c].pc = "returned"

\* the pixels of a call that carry a label so far
Labelled(s) == {p \in DOMAIN s.classificationMap : s.classificationMap[p] # Undefined}

\* lightPercentage + shadowPercentage = 100 with a positive divisor that the
\* two counts add up to
Partition(r) ==
    /\ r.totalPixels > 0
    /\ r.lightPixels + r.shadowPixels = r.totalPixels
    /\ r.lightPercentage.den = r.totalPixels
    /\ r.shadowPercentage.den = r.totalPixels
    /\ r.lightPercentage.num + r.shadowPercentage.num = 100 * r.totalPixels

\* C1: every classification of a valid image (width >= 1, height >= 1) on a
\* set-up service returns percentages that add up to 100: the counted pixels
\* equal the divisor of both percentages, and the divisor is positive.
C1_Partition ==
    \A c \in Callers :
        (Returned(c) /\ call[c].setupDone) => Partition(call[c].result)

\* C2: when classifyImagePixels returns, every pixel of the image has exactly
\* one label in classificationMap, the last row and column of tiles and the
\* pixels beyond the last full tile included.
C2_EveryPixelLabelled ==
    \A c \in Callers :
        Returned(c) =>
            \A p \in Pixels(call[c].imageData) :
                call[c].result.classificationMap[p] # Undefined

\* the label the four-class rule gives (R,G,B) with greenRatio = G / (R + B + 1)
\* and thresholds 120 and 0.52
C3_Label(r, g, b) ==
    LET dark == r + g + b < 3 * 120
        soil == 100 * g <= 52 * (r + b + 1)
    IN  IF dark /\ soil THEN SUELO_SOMBRA
        ELSE IF ~dark /\ soil THEN SUELO_LUZ
        ELSE IF dark /\ ~soil THEN MALLA_SOMBRA
        ELSE MALLA_LUZ

\* C3: the rule-based variant labels every pixel by intensity = (R+G+B)/3 and
\* greenRatio = G/(R+B+1) against the thresholds 120 and 0.52.
C3_RuleLabels ==
    \A c \in Callers :
        (variant = "rule" /\ Returned(c)) =>
            \A p \in Pixels(call[c].imageData) :
                LET px == Pixel(call[c].imageData, p[2], p[1])
                IN  call[c].result.classificationMap[p] = C3_Label(px[1], px[2], px[3])

\* C4: in the two-class variants the overlay paints every LIGHT (0) pixel
\* green and every SHADOW (1) pixel blue, and uses no other colour.
C4_OverlayColours ==
    \A c \in Callers :
        (RegionLevel /\ Returned(c) /\ call[c].result.processedImageData # Placeholder) =>
            \A p \in Pixels(call[c].imageData) :
                LET label == call[c].result.classificationMap[p]
                    colour == call[c].result.processedImageData[p]
                IN  /\ colour \in {GREEN, BLUE}
                    /\ label = LIGHT => colour = GREEN
                    /\ label = SHADOW => colour = BLUE

\* the origins of the tiles a heuristic call has labelled so far
TilesDone(s) ==
    {p \in Labelled(s) : p[1] % REGION_SIZE_HEURISTIC = 0 /\ p[2] % REGION_SIZE_HEURISTIC = 0}

\* the score of the claim: four bands over avgBrightness, the ratio min/max of
\* the channel averages, contrast and the largest channel average, each band
\* giving the points of the first threshold it exceeds
C6_Band(exceeds, thresholds, points) ==
    IF exceeds[thresholds[1]] THEN points[1]
    ELSE IF Len(thresholds) >= 2 /\ exceeds[thresholds[2]] THEN points[2]
    ELSE IF Len(thresholds) >= 3 /\ exceeds[thresholds[3]] THEN points[3]
    ELSE 0

C6_Score(f) ==
    LET sum == f.totalR + f.totalG + f.totalB
        mn == Min3(f.totalR, f.totalG, f.totalB)
        mx == Max3(f.totalR, f.totalG, f.totalB)
        range3 == f.maxBrightness3 - f.minBrightness3
        brightness == [t \in {180, 120, 80} |-> sum > 3 * t * f.pixelCount]
        balance == [t \in {8, 6} |-> mx > 0 /\ 10 * mn > t * mx]
        contrast == [t \in {30, 15} |-> 100 * range3 > t * 765]
        intensity == [t \in {200, 150} |-> mx > t * f.pixelCount]
    IN    C6_Band(brightness, <<180, 120, 80>>, <<40, 20, 10>>)
        + C6_Band(balance, <<8, 6>>, <<30, 15>>)
        + C6_Band(contrast, <<30, 15>>, <<20, 10>>)
        + C6_Band(intensity, <<200, 150>>, <<10, 5>>)

\* C6: the heuristic variant labels a region LIGHT (0) exactly when its score,
\* the sum of the brightness, colour-balance, contrast and channel-maximum
\* bands, is at least 50, and SHADOW (1) otherwise; exactly 50 gives LIGHT.
C6_ScoreThreshold ==
    \A c \in Callers :
        (variant = "heuristic" /\ call[c].pc = "finish") =>
            \A p \in TilesDone(call[c]) :
                LET score == C6_Score(regionFeatures(call[c].imageData, p[2], p[1], REGION_SIZE_HEURISTIC))
                IN  call[c].classificationMap[p] = (IF score >= 50 THEN LIGHT ELSE SHADOW)

\* a region that scores exactly 50 has been labelled LIGHT
C6_Witness ==
    /\ variant = "heuristic"
    /\ call[1].pc = "finish"
    /\ call[1].imageData.a = Grey(140)
    /\ C6_Score(regionFeatures(call[1].imageData, 0, 0, REGION_SIZE_HEURISTIC)) = 50
    /\ call[1].classificationMap[<<0, 0>>] = LIGHT

\* the four branch conditions as the code writes them
C7_Conditions(r, g, b) ==
    <<intensityLt(r, g, b) /\ greenRatioLe(r, g, b),
      ~intensityLt(r, g, b) /\ greenRatioLe(r, g, b),
      intensityLt(r, g, b) /\ ~greenRatioLe(r, g, b),
      ~intensityLt(r, g, b) /\ ~greenRatioLe(r, g, b)>>

\* C7: in the four-class variant exactly one branch condition holds for each
\* pixel, the class index is the one of that branch and lies in 0..3, and each
\* classified pixel is counted once, in lightPixels (classes 1 and 3) or in
\* shadowPixels (classes 0 and 2).
C7_OneBranchOneCount ==
    \A c \in Callers :
        variant = "rule" =>
            LET s == call[c]
                done == Labelled(s)
            IN  /\ \A p \in done :
                       LET px == Pixel(s.imageData, p[2], p[1])
                           cond == C7_Conditions(px[1], px[2], px[3])
                       IN  /\ Cardinality({k \in 1..4 : cond[k]}) = 1
                           /\ s.classificationMap[p] \in 0..3
                           /\ cond[s.classificationMap[p] + 1]
                /\ s.lightPixels = Cardinality({p \in done : s.classificationMap[p] \in {1, 3}})
                /\ s.shadowPixels = Cardinality({p \in done : s.classificationMap[p] \in {0, 2}})
                /\ s.lightPixels + s.shadowPixels = Cardinality(done)

\* a finished rule-based call whose image holds a MALLA_SOMBRA and a SUELO_LUZ pixel
C7_Witness ==
    /\ variant = "rule"
    /\ Returned(1)
    /\ \E p, q \in Pixels(call[1].imageData) :
           /\ call[1].result.classificationMap[p] = MALLA_SOMBRA
           /\ call[1].result.classificationMap[q] = SUELO_LUZ
    /\ call[1].result.shadowPixels > 0
    /\ call[1].result.lightPixels > 0

\* C8: in the region-level variants the pixels written for one tile all get
\* the same label, a pixel that has a label is not written again by a later
\* tile, and so lightPixels + shadowPixels counts every labelled pixel once.
C8_TilesDisjoint ==
    [][\A c \in Callers :
          (RegionLevel /\ call[c].pc \in {"loop", "apply"} /\ call'[c].pc \in {"loop", "apply", "finish"}) =>
              LET old == call[c]
                  new == call'[c]
                  fresh == Labelled(new) \ Labelled(old)
              IN  /\ \A p \in Labelled(old) : new.classificationMap[p] = old.classificationMap[p]
                  /\ Cardinality({new.classificationMap[p] : p \in fresh}) <= 1
                  /\ new.lightPixels + new.shadowPixels = Cardinality(Labelled(new))
                  /\ new.lightPixels = Cardinality({p \in Labelled(new) : new.classificationMap[p] = LIGHT})
      ]_vars

\* a heuristic call that has written two adjacent tiles with different labels
C8_Witness ==
    /\ variant = "heuristic"
    /\ call[1].pc = "finish"
    /\ call[1].imageData.width > 2 * REGION_SIZE_HEURISTIC
    /\ call[1].classificationMap[<<0, 0>>] = SHADOW
    /\ call[1].classificationMap[<<0, REGION_SIZE_HEURISTIC + 1>>] = LIGHT
    /\ call[1].lightPixels > 0
    /\ call[1].shadowPixels > 0

\* C9: a left-black / right-white image whose width and height are multiples
\* of twice the region size is reported as 50% light and 50% shadow.
C9_HalfAndHalf ==
    \A c \in Callers :
        LET img == call[c].imageData
        IN  (/\ variant = "heuristic"
             /\ Returned(c)
             /\ img.kind = "halves" /\ img.a = Black /\ img.b = White
             /\ img.width % (2 * REGION_SIZE_HEURISTIC) = 0
             /\ img.height % (2 * REGION_SIZE_HEURISTIC) = 0)
            => /\ call[c].result.totalPixels > 0
               /\ 2 * call[c].result.lightPixels = call[c].result.totalPixels
               /\ 2 * call[c].result.shadowPixels = call[c].result.totalPixels

\* the region the heuristic loop of a call handled last, while the loop is
\* still in the same row of tiles
LastRegion(s) == [x |-> s.x - REGION_SIZE_HEURISTIC, y |-> s.y]

RegionHandled(c) == variant = "heuristic" /\ call[c].pc = "loop" /\ call[c].x > 0

\* the values r + g + b (three times the brightness) of the pixels of a region
C12_Brightness3(img, x, y, rs) ==
    {LET px == Pixel(img, x + d[1], y + d[2]) IN px[1] + px[2] + px[3] :
         d \in (0..(rs - 1)) \X (0..(rs - 1))}

C12_Max(S) == CHOOSE m \in S : \A v \in S : v <= m
C12_Min(S) == CHOOSE m \in S : \A v \in S : m <= v

\* C12 (as amended): the contrast that feeds the contrast band is the range
\* of the per-pixel brightness over the region, (max - min) / 255.
C12_ContrastIsRange ==
    \A c \in Callers :
        RegionHandled(c) =>
            LET r == LastRegion(call[c])
                S == C12_Brightness3(call[c].imageData, r.x, r.y, REGION_SIZE_HEURISTIC)
            IN  /\ call[c].contrast.den = 3 * 255
                /\ call[c].contrast.num = C12_Max(S) - C12_Min(S)

\* a region of brightness 100 and 150 has been handled: contrast 50 / 255
C12_Witness ==
    /\ RegionHandled(1)
    /\ call[1].imageData.kind = "checker"
    /\ call[1].imageData.a = Grey(100)
    /\ call[1].imageData.b = Grey(150)
    /\ call[1].contrast = [num |-> 3 * 50, den |-> 3 * 255]

\* the sum of (r + g + b - q)^2 over the pixels lo..hi of a region
RECURSIVE C12_SumSq(_, _, _, _, _, _, _)
C12_SumSq(img, x, y, rs, q, lo, hi) ==
    IF lo = hi
    THEN LET px == Pixel(img, x + (lo % rs), y + (lo \div rs))
             d == px[1] + px[2] + px[3] - q
         IN  d * d
    ELSE LET mid == (lo + hi) \div 2
         IN  C12_SumSq(img, x, y, rs, q, lo, mid) + C12_SumSq(img, x, y, rs, q, mid + 1, hi)

\* range3 = the (population) standard deviation of r + g + b over the n pixels
\* of the region, that is n^2 * range3^2 = n * sum((v - q)^2) - (sum(v - q))^2
\* for any q; q is the integer part of the mean, which keeps the terms small
C12_IsStdDev3(img, x, y, rs, range3) ==
    LET f == regionFeatures(img, x, y, rs)
        n == f.pixelCount
        total == f.totalR + f.totalG + f.totalB
        q == total \div n
        rest == total - n * q
        d == C12_SumSq(img, x, y, rs, q, 0, rs * rs - 1) - n * range3 * range3
    IN  d >= 0 /\ d <= n /\ n * d = rest * rest

\* C12: the contrast that feeds the contrast band is the standard deviation
\* of the per-pixel brightness (R+G+B)/3 over the region, divided by 255.
C12_ContrastIsStdDev ==
    \A c \in Callers :
        RegionHandled(c) =>
            LET r == LastRegion(call[c])
            IN  /\ call[c].contrast.den = 3 * 255
                /\ C12_IsStdDev3(call[c].imageData, r.x, r.y, REGION_SIZE_HEURISTIC,
                                 call[c].contrast.num)

AllBlack(img) == \A p \in Pixels(img) : Pixel(img, p[2], p[1]) = Black

\* C13: a region or pixel whose R, G and B bytes are all zero is classified
\* without error into the shadow branch: SHADOW (1) by the heuristic score,
\* SUELO_SOMBRA (0) by the four-class rule, and an all-black image gives
\* lightPercentage = 0 and shadowPercentage = 100 under the four-class rule.
C13_AllZeroIsShadow ==
    \A c \in Callers :
        LET s == call[c]
        IN  /\ (variant = "heuristic" /\ s.pc = "finish") =>
                   \A p \in TilesDone(s) :
                       C12_Brightness3(s.imageData, p[2], p[1], REGION_SIZE_HEURISTIC) = {0}
                           => s.classificationMap[p] = SHADOW
            /\ variant = "rule" =>
                   /\ \A p \in Labelled(s) :
                          Pixel(s.imageData, p[2], p[1]) = Black
                              => s.classificationMap[p] = SUELO_SOMBRA
                   /\ (Returned(c) /\ AllBlack(s.imageData)) =>
                          /\ s.result.totalPixels > 0
                          /\ s.result.lightPercentage.num = 0
                          /\ s.result.shadowPercentage.num = 100 * s.result.shadowPercentage.den
            /\ (variant \in {"heuristic", "rule"} /\ s.pc = "thrown" /\ AllBlack(s.imageData)) =>
                   (variant = "rule" /\ Labelled(s) = Pixels(s.imageData))

\* an all-black image of several pixels has been classified by the four-class rule
C13_Witness ==
    /\ variant = "rule"
    /\ Returned(1)
    /\ call[1].imageData.width * call[1].imageData.height > 1
    /\ AllBlack(call[1].imageData)
    /\ \A p \in Pixels(call[1].imageData) : call[1].result.classificationMap[p] = SUELO_SOMBRA
    /\ call[1].result.lightPercentage.num = 0
    /\ call[1].result.shadowPercentage = [num |-> 100 * call[1].result.totalPixels,
                                          den |-> call[1].result.totalPixels]

(***************************************************************************)
(* Properties of the service life cycle (checked under Spec)               *)
(***************************************************************************)
\* C5: a classifyImagePixels call made before initialize -> createModel ->
\* trainModel has completed throws and returns no classification.
C5_NotReadyThrows ==
    \A c \in Callers :
        (call[c].pc \in {"returned", "thrown"} /\ ~call[c].setupDone) => call[c].pc = "thrown"

\* C10: no step of classifyImagePixels changes model, isModelLoaded,
\* isInitializing or isTraining, nor the image buffer it was called with, for
\* any number of calls and any interleaving of concurrent calls.
C10_ClassifyReadOnly ==
    [][call' # call =>
          /\ svc' = svc
          /\ \A c \in Callers :
                 (call[c].pc # "idle" /\ call'[c].pc # "idle") =>
                     call'[c].imageData = call[c].imageData
      ]_vars

\* two calls in flight at once on the set-up service: one suspended at its
\* await, the other writing its regions
C10_Witness ==
    /\ SetupDone
    /\ variant = "region"
    /\ call[1].pc = "await_predict" /\ call[1].setupDone
    /\ call[2].pc = "apply" /\ call[2].setupDone /\ call[2].i > 0
    /\ isModelLoaded /\ model = "created"

(***************************************************************************)
(* Properties of the set-up sequence (checked under SpecSetup)             *)
(***************************************************************************)
\* C11: once the set-up sequence has completed, running initialize(),
\* createModel() and trainModel() again replaces no model object and fits no
\* weights again, and a hook-level initialize() made once globalIsInitialized
\* is set calls nothing on the service.
C11_SetupIdempotent ==
    [][globalIsInitialized =>
          /\ modelSerial' = modelSerial
          /\ fitCount' = fitCount
          /\ hook' # hook => (svc' = svc /\ setup' = setup)
      ]_vars

(***************************************************************************)
(* Properties of the fixed brightness threshold (checked under SpecTrain)  *)
(***************************************************************************)
\* C14: the fixed-threshold pixel-level policy labels a pixel LIGHT exactly
\* when (R+G+B)/3 > 130: 131 is LIGHT, 130 and 129 are SHADOW; and the share
\* of LIGHT labels is the share of pixels brighter than 130 (white, white,
\* black, black gives 50%).
C14_Threshold130 ==
    /\ \A k \in 1..Len(samples) :
           LET c == samples[k].features
           IN  samples[k].label = (IF c[1] + c[2] + c[3] > 3 * 130 THEN LABEL_LIGHT ELSE LABEL_SHADOW)
    /\ Cardinality({k \in 1..Len(samples) : samples[k].label = LABEL_LIGHT})
           = Cardinality({k \in 1..Len(samples) :
                             samples[k].features[1] + samples[k].features[2]
                                 + samples[k].features[3] > 3 * 130})

(***************************************************************************)
(* Properties of the POST handler (checked under SpecRoute)                *)
(***************************************************************************)
\* C18: for any interleaving of concurrent requests, the handler calls
\* classifyImagePixels on the shared service only after initialize(),
\* createModel() and trainModel() have all completed on it, and no request
\* fails at the readiness guard of classifyImagePixels.
C18_ClassifyAfterSetup ==
    \A c \in Callers :
        (request[c] = "loadImage" /\ call[c].pc # "idle") =>
            /\ call[c].setupDone
            /\ ~(call[c].pc = "thrown" /\ call[c].classificationMap = EmptyMap)

(***************************************************************************)
(* Properties of GoogleSheetsService (checked under SpecSheets)            *)
(***************************************************************************)
\* client p starts getFieldData or getHistorial in this step
StartsGet(p) ==
    /\ Callable(p)
    /\ op'[p] # op[p]
    /\ op'[p].method \in Gets

\* C15 as stated: a get called less than 300000 ms after the last successful
\* fetch of its data returns the cached value without a request, and a get
\* called 300000 ms or more after it issues a new request.
C15_FreshFetchServedFromCache ==
    [][\A p \in Clients :
          (StartsGet(p) /\ lastFetch[op'[p].method] >= 0) =>
              IF DateNow - lastFetch[op'[p].method] < 300000
              THEN op'[p].pc = "returned" /\ op'[p].result.source = "cache"
              ELSE op'[p].pc = "await_get"
      ]_vars

\* C15 amended: a get returns the cached value without a request when a cache
\* entry of its data exists and was stored less than 300000 ms ago, and
\* otherwise (outside demo mode, authentication succeeding) issues a new
\* request; an entry is only ever stored by a successful fetch, at its time.
C15_CacheEntryServedWhileFresh ==
    [][/\ \A p \in Clients :
             StartsGet(p) =>
                 LET cache == cacheOf(op'[p].method)
                 IN  IF cache.present /\ DateNow - cache.timestamp < 300000
                     THEN /\ op'[p].pc = "returned"
                          /\ op'[p].result = DataResult("cache", cache.data)
                     ELSE (~demoMode(config) /\ (sheets \/ authenticate(config)))
                              => op'[p].pc = "await_get"
       /\ \A m \in Gets :
             (cacheOf(m)' # cacheOf(m) /\ cacheOf(m)'.present) =>
                 /\ lastFetch'[m] = DateNow
                 /\ cacheOf(m)'.timestamp = DateNow
      ]_vars

\* a get has been answered from a cache entry stored at an earlier time
C15_Witness ==
    \E p \in Clients :
        /\ op[p].pc = "returned"
        /\ op[p].method \in Gets
        /\ op[p].result.source = "cache"
        /\ cacheOf(op[p].method).present
        /\ cacheOf(op[p].method).timestamp < DateNow

\* C16: with GOOGLE_SHEETS_SPREADSHEET_ID unset or 'demo', every get returns
\* the built-in demo data, every save returns normally, and no call attempts
\* authentication or a Sheets request.
C16_DemoMode ==
    spreadsheetId \in {"unset", "demo"} =>
        /\ ~sheets
        /\ lastFetch = NeverFetched
        /\ \A p \in Clients :
              /\ op[p].pc \in {"idle", "returned"}
              /\ op[p].authenticated = "none"
              /\ (op[p].pc = "returned" /\ op[p].method \in Gets)
                     => op[p].result = DataResult("demo", Demo(op[p].method))
              /\ (op[p].pc = "returned" /\ op[p].method = "saveProcessingResult")
                     => op[p].result = [kind |-> "void"]

\* in demo mode one client's save and another client's get have returned
C16_Witness ==
    /\ spreadsheetId = "demo"
    /\ \E p, q \in Clients :
          /\ op[p].pc = "returned" /\ op[p].method = "saveProcessingResult"
          /\ op[q].pc = "returned" /\ op[q].method = "getHistorial"
          /\ op[q].result.data = DemoHistorial

\* the Sheets request of client p's get is rejected in this step
GetRequestFails(p) ==
    /\ op[p].pc = "await_get"
    /\ op'[p].pc \notin {"await_get", "get_served"}

\* C17: getFieldData and getHistorial never throw; when authentication fails
\* or the Sheets request throws they return the demo data with success: true,
\* and the caches never take the demo data.
C17_GetsNeverThrow ==
    [][/\ \A p \in Clients :
             /\ op'[p].method \in Gets => op'[p].pc # "thrown"
             /\ (op'[p].method \in Gets /\ op'[p].authenticated = "false") =>
                    /\ op'[p].pc = "returned"
                    /\ op'[p].result = DataResult("demo", Demo(op'[p].method))
                    /\ op'[p].result.success
             /\ GetRequestFails(p) =>
                    /\ op'[p].pc = "returned"
                    /\ op'[p].result = DataResult("demo", Demo(op'[p].method))
                    /\ op'[p].result.success
                    /\ UNCHANGED <<historialCache, fieldDataCache, lastFetch>>
       /\ \A m \in Gets : cacheOf(m)'.present => cacheOf(m)'.data # Demo(m)
      ]_vars

\* an authenticated getHistorial whose request was rejected has returned the
\* demo data, and the cache is empty
C17_Witness ==
    /\ sheets
    /\ ~historialCache.present
    /\ \E p \in Clients :
          /\ op[p].pc = "returned"
          /\ op[p].method = "getHistorial"
          /\ op[p].result = DataResult("demo", DemoHistorial)

\* C19: every row appended by saveProcessingResult carries an id strictly
\* greater than every id already in the sheet, so the ids of the sheet are
\* strictly increasing and no two rows share one.
C19_IdsStrictlyIncreasing ==
    \A i, j \in 1..Len(mainSheet) : i < j => mainSheet[i] < mainSheet[j]

\* the rows appended by saves that have returned (the sheet only grows, and a
\* save whose append was served returns at its next step)
RowsAcknowledged ==
    Len(mainSheet) - Cardinality({q \in Clients : op[q].pc = "append_served"})

\* C20: once a save has appended its row and returned, historialCache holds
\* no snapshot read before that append: a cached snapshot has every row of
\* every returned save.
C20_NoStaleHistorialCache ==
    historialCache.present => Len(historialCache.data) >= RowsAcknowledged

(***************************************************************************)
(* Properties of set-up failure on the route (checked under SpecRoute)     *)
(***************************************************************************)
\* request c enters the handler with a file in this step
PostsFile(c) ==
    /\ request[c] \in {"idle"} \cup Responded
    /\ request'[c] \in {"setup", "loadImage"}

\* C22: a failed set-up attempt does not block later ones: a POST that
\* arrives after the set-up sequence has thrown starts the sequence again
\* instead of going on to classify as if the service were set up.
C22_FailedSetupRetried ==
    [][\A c \in Callers :
          (PostsFile(c) /\ setup = "failed") => request'[c] = "setup"
      ]_vars

(***************************************************************************)
(* Properties of concurrent set-up sequences (checked under SpecSeq)       *)
(***************************************************************************)
\* the hook instances other than h whose call of the method is in flight
InFlight(h, awaiting) == {g \in Hooks \ {h} : seq[g] = awaiting}

\* C23: a call of initialize() made while another initialize() is in flight
\* does not resolve in the step it is made (it resolves only after the call
\* in flight has finished), and the same for trainModel().
C23_WaitsForInFlight ==
    [][\A h \in Hooks :
          /\ (seq[h] \in {"none", "done", "failed"} /\ InFlight(h, "initialize_await") # {})
                 => seq'[h] # "initialized"
          /\ (seq[h] = "modelCreated" /\ InFlight(h, "trainModel_await") # {})
                 => seq'[h] # "done"
      ]_vars

\* some hook instance's call of the method is in flight
SomeInFlight(awaiting) == \E h \in Hooks : seq[h] = awaiting

\* C24: isReady() is true only when createModel() and trainModel() have both
\* returned normally and no initialize() or trainModel() is in flight, and
\* isInitializing and isTraining are false whenever no such call is in flight.
C24_ReadyMeansSetUp ==
    /\ isReady =>
           /\ completed["createModel"]
           /\ completed["trainModel"]
           /\ ~SomeInFlight("initialize_await")
           /\ ~SomeInFlight("trainModel_await")
    /\ ~SomeInFlight("initialize_await") => ~isInitializing
    /\ ~SomeInFlight("trainModel_await") => ~isTraining

(***************************************************************************)
(* Properties of the useTensorFlow hook (checked under SpecHooks)          *)
(***************************************************************************)
\* the hook instances whose set-up sequence has started and not ended
RunsInFlight == {h \in Hooks : seq[h] \notin {"none", "done", "failed"}}

\* C21: at most one set-up sequence is in flight across all hook instances;
\* an initialize() that arrives during a run waits for that run and is
\* released in the step that run settles; once globalIsInitialized is set no
\* sequence is started or advanced again.
C21_SingleSetupRun ==
    [][/\ Cardinality(RunsInFlight') <= 1
       /\ \A h \in Hooks :
             /\ hook'[h].pc = "await_promise" =>
                    \E g \in Hooks : hook'[g].pc = "await_own"
             /\ (hook[h].pc = "await_promise" /\ hook'[h].pc # "await_promise") =>
                    \E g \in Hooks : /\ hook[g].pc = "await_own"
                                     /\ hook'[g].pc = "idle"
                                     /\ seq[g] \in {"done", "failed"}
       /\ globalIsInitialized => (seq' = seq /\ svc' = svc)
      ]_vars

\* one instance runs the sequence, another arrived during the run and waits
C21_Witness ==
    \E h, g \in Hooks :
        /\ hook[h].pc = "await_own"
        /\ seq[h] \in {"initialize_await", "createModel_await", "trainModel_await"}
        /\ hook[g].pc = "await_promise"

(***************************************************************************)
(* Properties of the GPS cache (checked under SpecGps)                     *)
(***************************************************************************)
\* C25: for every file, the value cached under its key equals the value its
\* extractGpsFromImage promise resolved with, so every call for the same
\* file resolves with the same result.
C25_CacheEqualsResolved ==
    \A s, t \in Extractions :
        (extraction[s].state = "settled" /\ extraction[t].state = "settled"
             /\ extraction[s].file = extraction[t].file) =>
            /\ gpsCache[extraction[s].file] = extraction[s].value
            /\ extraction[t].value = extraction[s].value

\* C26: after removeImage(file) the GPS cache holds no entry for the key of
\* that file.
C26_RemoveClearsCache ==
    [][\A f \in Files :
          (f \in images /\ f \notin images') => gpsCache'[f] = "none"
      ]_vars

====
